---- MODULE Spec2Model ----
(***************************************************************************)
(* Download orchestration of tg-file-downloader: the DownloadManager       *)
(* (scheduler), the data file it persists, and the discovery upsert.       *)
(*                                                                         *)
(* The program runs on one JavaScript event loop.  Every action below is   *)
(* one turn of that loop: the code that runs between two awaits.           *)
(*                                                                         *)
(* Specifications: Spec and FairSpec (a download run, saves in one step),  *)
(* SaveSpec (the saves of one run, file operation by file operation) and   *)
(* TwoJobsSpec (the same over two jobs),                                   *)
(* LoadSpec (load, save, damage and kill on one data file), UpsertSpec     *)
(* (upserts and status updates in memory), RetrySpec (the                  *)
(* downloadFileWithRetry calls for one job), SessionSpec (the encrypted    *)
(* session file and authenticate), ConfigSpec (validateConfig),            *)
(* BackupSpec (the names of the backups), PairSpec (two jobs of one run    *)
(* and the download directory), DiscoverSpec (one discoverFiles call).     *)
(***************************************************************************)
EXTENDS Integers, Sequences, FiniteSets, TLC

\* ------------------------------------------------------------------ bounds
NumFiles == 3            \* distinct file ids discovery can supply
NumSavers == 2           \* executions of one run that save side by side
MaxClock == 1            \* last millisecond of the clock
MaxIds == 2              \* distinct ids the upsert calls draw from

\* --------------------------------------------------------------- constants
DefaultConcurrency == 3  \* `concurrency || 3`

Absent == "absent"                        \* an optional field that is not set
RetryMessage == "Failed after N attempts" \* downloadFileWithRetry's failure
PersistMessage == "ENOSPC: write failed"  \* error.message of a failed save
OutputPath == "outputPath"                \* result.downloadPath of a success
Timestamp == "now"                        \* new Date().toISOString()
Sizes == {100, 120}                       \* declared sizes discovery reports

FileIds == 1..NumFiles
ConcurrencyChoices == {0, 1, 2}           \* 0: not configured (falsy)

VARIABLES
    disk,             \* files of the snapshot at dataFilePath
    mgr,              \* where DownloadManager.start is
    resumeExisting,   \* options.resumeExisting
    concurrency,      \* options.config.download.concurrency (0: unset)
    dataFile,         \* this.dataFile.files, the in-memory snapshot
    filesToDownload,  \* the candidates of the run (ids, in list order)
    queue,            \* downloadWithConcurrency's queue (ids)
    active,           \* downloadWithConcurrency's active executions
    raceSettled,      \* the awaited Promise.race(active) has settled
    stats,            \* this.stats
    loaded,           \* history: the files as loadDataFile returned them
    dispatched,       \* history: ids in the order their execution started
    unpersisted,      \* history: ids whose handling ended on a status
                      \*   transition that no save of that handling wrote
    persistFailed     \* history: a save threw in this run

mgrVars == <<disk, mgr, resumeExisting, concurrency, dataFile,
             filesToDownload, queue, active, raceSettled, stats, loaded,
             dispatched, unpersisted, persistFailed>>

\* The files at and beside one dataFilePath, and the saveDataFile and
\* loadDataFile calls working on them.
VARIABLES
    clock,            \* Date.now(), epoch milliseconds
    primary,          \* content of the file at filePath
    backups,          \* content of `${filePath}.backup.${timestamp}`
    temps,            \* content of `${filePath}.tmp.${Date.now()}`
    snapshot,         \* the DataFile object in memory
    saves,            \* the saveDataFile calls in flight or ended
    loadResult        \* what the last loadDataFile call did

\* The files and the calls, without the snapshot in memory.
onDisk == <<clock, primary, backups, temps, saves, loadResult>>

storeVars == <<onDisk, snapshot>>

\* The calls that changed the snapshot in memory.
VARIABLES
    lastCall          \* history: the last upsert or status update made

upsertVars == <<lastCall>>

\* One downloadFileWithRetry call and the two paths it works on.
VARIABLES
    retry,            \* where downloadFileWithRetry and downloadFile are
    partFile,         \* bytes of the file at tempPath, `${outputPath}.part`
    finalFile,        \* bytes of the file at outputPath
    attemptResult,    \* what the last downloadFile call returned
    result,           \* what downloadFileWithRetry returned
    previous,         \* history: what the call before this one returned
    flood             \* history: the call of the client that was told to wait

retryVars == <<retry, partFile, finalFile, attemptResult, result, previous,
               flood>>

\* The session file, the calls of the secret store and authenticate.
VARIABLES
    sessionFile,      \* characters of telegram-session.enc (none: no file)
    encrypted,        \* history: the last encrypt call and what it returned
    decrypted,        \* history: the last decrypt call and how it ended
    auth              \* where authenticate is, and the session it uses

\* The configuration file as parsed, and the validateConfig call on it.
VARIABLES
    config,           \* the parsed configuration
    validation        \* what validateConfig did

configVars == <<config, validation>>

\* The backups beside one data file, by name.
VARIABLES
    backupDir,        \* names of the backup files in the directory
    created,          \* history: the instants of the createBackup calls
    latest            \* what findLatestBackup returned

backupVars == <<backupDir, created, latest>>

\* Two jobs of one run and the download directory they write to.
VARIABLES
    jobs,             \* the two file entries and where their executions are
    tree,             \* the files of the download directory, by path
    options,          \* options.config.download of the run; in the
                      \*   discovery, the options of discoverFiles
    runStats          \* this.stats of the run

pairVars == <<jobs, tree, options, runStats>>

sideVars == <<backupVars, pairVars>>

cliVars == <<sessionFile, encrypted, decrypted, auth, configVars, sideVars>>

otherVars == <<storeVars, upsertVars, retryVars, cliVars>>

\* Everything but the files, the calls on them and the snapshot.
nonStoreVars == <<mgrVars, upsertVars, retryVars, cliVars>>

vars == <<mgrVars, otherVars>>

\* ----------------------------------------------------------------- helpers
Min(a, b) == IF a < b THEN a ELSE b

Range(s) == {s[i] : i \in 1..Len(s)}

RECURSIVE SumSizes(_)
SumSizes(files) ==
    IF files = <<>> THEN 0 ELSE Head(files).size + SumSizes(Tail(files))

\* Array.prototype.findIndex on the id; 0 stands for JavaScript's -1.
FindIndex(files, fileId) ==
    LET hits == {i \in 1..Len(files) : files[i].id = fileId}
    IN  IF hits = {} THEN 0 ELSE CHOOSE i \in hits : \A j \in hits : i <= j

\* A descriptor as discovery produces it: status pending, nothing else set.
NewFileEntry(fileId, size) ==
    [id |-> fileId, size |-> size, downloadStatus |-> "pending",
     downloadedAt |-> Absent, downloadPath |-> Absent, errorMessage |-> Absent]

ZeroStats ==
    [total |-> 0, completed |-> 0, failed |-> 0, skipped |-> 0,
     totalSize |-> 0, downloadedSize |-> 0]

\* ------------------------------------------------------------- JobStore
\* Mutant: the descriptor is pushed without looking for its id.
upsertFileAppending(files, file) == Append(files, file)

\* Mutant: an existing entry is replaced by the incoming descriptor.
upsertFileReplacing(files, file) ==
    LET existingIndex == FindIndex(files, file.id)
    IN  IF existingIndex > 0
        THEN [files EXCEPT ![existingIndex] = file]
        ELSE Append(files, file)

upsertFile(files, file) ==
    LET existingIndex == FindIndex(files, file.id)
    IN  IF existingIndex > 0
        THEN [files EXCEPT ![existingIndex] =
                [file EXCEPT !.downloadStatus = files[existingIndex].downloadStatus,
                             !.downloadedAt = files[existingIndex].downloadedAt,
                             !.downloadPath = files[existingIndex].downloadPath,
                             !.errorMessage = files[existingIndex].errorMessage]]
        ELSE Append(files, file)

\* ------------------------------------------------------------ Scheduler
updateFileStatus(files, fileId, status, downloadPath, errorMessage) ==
    LET fileIndex == FindIndex(files, fileId)
    IN  IF fileIndex > 0
        THEN [files EXCEPT ![fileIndex] =
                [@ EXCEPT !.downloadStatus = status,
                          !.downloadPath =
                              IF downloadPath # Absent THEN downloadPath ELSE @,
                          !.downloadedAt =
                              IF downloadPath # Absent THEN Timestamp ELSE @,
                          !.errorMessage =
                              IF errorMessage # Absent THEN errorMessage ELSE @]]
        ELSE files

\* Mutant: the resume option is ignored and failed jobs are always retried.
IsCandidateIgnoringMode(f, resume) ==
    f.downloadStatus = "pending" \/ f.downloadStatus = "failed"

IsCandidate(f, resume) ==
    IF resume
    THEN f.downloadStatus = "pending" \/ f.downloadStatus = "failed"
    ELSE f.downloadStatus = "pending"

getFilesToDownload(files, resume) ==
    LET Keep(f) == IsCandidate(f, resume)
    IN  SelectSeq(files, Keep)

EffectiveConcurrency(c) == IF c = 0 THEN DefaultConcurrency ELSE c

\* Mutant: the inner loop does not test active.length against the bound.
FillCountUnbounded(q, act, c) == Len(q)

\* Mutant: the queue is read only when every execution of the batch has ended.
FillCountBatch(q, act, c) ==
    IF act = <<>> THEN Min(EffectiveConcurrency(c), Len(q)) ELSE 0

\* The number of jobs one pass of the inner `while` takes from the queue.
FillCount(q, act, c) ==
    IF Len(act) < EffectiveConcurrency(c)
    THEN Min(EffectiveConcurrency(c) - Len(act), Len(q))
    ELSE 0

\* Mutant: the head is read (queue[0]) but not removed.
ShiftRestKeepingHead(q) == q

\* Mutant: the file taken is the last of the queue (queue.pop()).
ShiftLast(q) == q[Len(q)]

\* queue.shift(): the file taken, and the queue left.
ShiftHead(q) == Head(q)
ShiftRest(q) == Tail(q)

\* The synchronous start of downloadSingleFile(file): the status becomes
\* in-progress and saveDataFile is called (it suspends at its first await).
NewExecution(fileId) ==
    [file |-> fileId, pc |-> "persistStart", dirty |-> TRUE]

\* The inner `while (active.length < concurrency && queue.length > 0)`.
RECURSIVE Fill(_, _, _, _, _)
Fill(q, act, files, order, n) ==
    IF n = 0
    THEN [queue |-> q, active |-> act, files |-> files, order |-> order]
    ELSE Fill(ShiftRest(q),
              Append(act, NewExecution(ShiftHead(q))),
              updateFileStatus(files, ShiftHead(q), "in-progress", Absent, Absent),
              Append(order, ShiftHead(q)),
              n - 1)

\* active.splice(index, 1)
RemoveAt(act, k) == SubSeq(act, 1, k - 1) \o SubSeq(act, k + 1, Len(act))

\* What an earlier run can leave of a file in the data file: completed by a
\* successful transfer, failed by a failed one, in-progress by a process
\* killed in flight; pending is what discovery wrote.
LeftBy(fileId, status) ==
    [NewFileEntry(fileId, 100) EXCEPT
        !.downloadStatus = status,
        !.downloadPath = IF status = "completed" THEN OutputPath ELSE Absent,
        !.downloadedAt = IF status = "completed" THEN Timestamp ELSE Absent,
        !.errorMessage = IF status = "failed" THEN RetryMessage ELSE Absent]

\* The data files a download run can find: n discovered files of which, in
\* list order, the first are completed, the next failed, the next in-progress
\* and the rest pending.
DataFileWith(nCompleted, nFailed, nInProgress, n) ==
    [i \in 1..n |->
        LeftBy(i, IF i <= nCompleted THEN "completed"
                  ELSE IF i <= nCompleted + nFailed THEN "failed"
                  ELSE IF i <= nCompleted + nFailed + nInProgress
                       THEN "in-progress"
                  ELSE "pending")]

\* ------------------------------------------------ files on disk
Times == 0..MaxClock

Savers == 1..NumSavers       \* the executions; they handle jobs 1..NumSavers
FinalSaver == 0              \* the saveDataFile call at the end of start


GroupTitles == {"title", "renamed"}

\* A group as discovery reports it.
NewGroup(groupId, title) == [id |-> groupId, title |-> title]

upsertGroup(groups, group) ==
    LET existingIndex == FindIndex(groups, group.id)
    IN  IF existingIndex > 0
        THEN [groups EXCEPT ![existingIndex] = group]
        ELSE Append(groups, group)

\* createDataFile().statistics
ZeroStatistics ==
    [totalGroups |-> 0, totalFiles |-> 0, totalSize |-> 0, pendingFiles |-> 0,
     completedFiles |-> 0, failedFiles |-> 0, totalDownloadedSize |-> 0]

createDataFile == [groups |-> <<>>, files |-> <<>>,
                   statistics |-> ZeroStatistics]

CountStatus(files, status) ==
    Cardinality({i \in 1..Len(files) : files[i].downloadStatus = status})

updateStatistics(data) ==
    [data EXCEPT !.statistics =
        [totalGroups |-> Len(data.groups),
         totalFiles |-> Len(data.files),
         totalSize |-> SumSizes(data.files),
         pendingFiles |-> CountStatus(data.files, "pending"),
         completedFiles |-> CountStatus(data.files, "completed"),
         failedFiles |-> CountStatus(data.files, "failed"),
         totalDownloadedSize |->
            SumSizes(SelectSeq(data.files,
                               LAMBDA f : f.downloadStatus = "completed"))]]

\* What a path holds: no file, a file JSON.parse throws a SyntaxError on
\* (empty or cut short), or the JSON text of a DataFile.
Missing == [kind |-> "absent", data |-> createDataFile]
Unparsable == [kind |-> "unparsable", data |-> createDataFile]
Json(data) == [kind |-> "json", data |-> data]

NoFile == [t \in Times |-> Missing]

\* A saveDataFile call that has not been made.
NoSave == [pc |-> "queued", phase |-> 0, stamp |-> 0, temp |-> 0,
           content |-> createDataFile, fd |-> "none", outcome |-> "none"]

\* loadDataFile has not been called by this process.
NoLoad == [outcome |-> "none", source |-> "none"]

StoreAtRest ==
    /\ clock = 0
    /\ primary = Missing
    /\ backups = NoFile
    /\ temps = NoFile
    /\ snapshot = createDataFile
    /\ saves = <<>>
    /\ loadResult = NoLoad

\* No upsert and no status update has been made.
NoCall == [op |-> "none", file |-> NewFileEntry(0, 0)]

UpsertAtRest == lastCall = NoCall

NoBytes == 0 - 1             \* there is no file at the path

\* An error message: its wording and the numbers it is built with.
Message(text, n, m) == [text |-> text, n |-> n, m |-> m]

NoMessage == Message("", 0, 0)

\* A DownloadResult; `code` is the code of the DownloadError caught (it is
\* not a field of the result), `skipped` tells the success without transfer.
NoResult == [returned |-> FALSE, success |-> FALSE, error |-> NoMessage,
             code |-> "", skipped |-> FALSE]

\* downloadFileWithRetry has not been called.
NoRetry == [pc |-> "idle", attempt |-> 0, maxAttempts |-> 0,
            overwriteExisting |-> FALSE, delays |-> 0, buffer |-> NoBytes,
            remote |-> 0, waitMs |-> 0]

\* No call of the client has been told to wait.
NoFlood == [call |-> "none", seconds |-> 0]

\* What a history variable holds in a specification that never runs the
\* operation it records.
NotRun == <<>>

RetryAtRest ==
    /\ retry = NoRetry
    /\ partFile = NoBytes
    /\ finalFile = NoBytes
    /\ attemptResult = NoResult
    /\ result = NoResult
    /\ previous = NotRun
    /\ flood = NotRun

\* No password is passed (`password?: string` is undefined).
NoPassword == "<undefined>"

\* encrypt has not been called.
NoEncrypt == [called |-> FALSE, data |-> <<>>, password |-> NoPassword,
              returned |-> <<>>]

\* decrypt has not been called.
NoDecrypt == [called |-> FALSE, threw |-> FALSE, text |-> <<>>,
              error |-> "", password |-> NoPassword]

\* authenticate has not been called.
NoAuth == [pc |-> "idle", sessionString |-> <<>>, secretError |-> FALSE,
           replaced |-> FALSE]

\* A number that is not in the configuration file.
Unset == [set |-> FALSE, value |-> 0]

\* A number the configuration file gives.
Given(n) == [set |-> TRUE, value |-> n]

\* A configuration file that sets nothing.
EmptyConfig ==
    [handlesValid |-> TRUE, patternsValid |-> TRUE, outputDir |-> "",
     concurrency |-> Unset, minSize |-> Unset, maxSize |-> Unset,
     maxSizeNull |-> FALSE]

\* validateConfig has not been called.
NoValidation == [called |-> FALSE, threw |-> FALSE, code |-> ""]

ConfigAtRest ==
    /\ config = NotRun
    /\ validation = NotRun

SessionAtRest ==
    /\ sessionFile = <<>>
    /\ encrypted = NotRun
    /\ decrypted = NotRun
    /\ auth = NotRun

BackupsAtRest ==
    /\ backupDir = {}
    /\ created = <<>>
    /\ latest = NotRun

PairAtRest ==
    /\ jobs = NotRun
    /\ tree = NotRun
    /\ options = NotRun
    /\ runStats = NotRun

SideAtRest == BackupsAtRest /\ PairAtRest

CliAtRest == SessionAtRest /\ ConfigAtRest /\ SideAtRest

OthersAtRest == StoreAtRest /\ UpsertAtRest /\ RetryAtRest /\ CliAtRest

Init ==
    /\ \E n \in 0..NumFiles :
         \E a \in 0..n : \E b \in 0..(n - a) : \E c \in 0..(n - a - b) :
            disk = DataFileWith(a, b, c, n)
    /\ mgr = "idle"
    /\ resumeExisting = FALSE
    /\ concurrency = 0
    /\ dataFile = <<>>
    /\ filesToDownload = <<>>
    /\ queue = <<>>
    /\ active = <<>>
    /\ raceSettled = FALSE
    /\ stats = ZeroStats
    /\ loaded = <<>>
    /\ dispatched = <<>>
    /\ unpersisted = {}
    /\ persistFailed = FALSE
    /\ OthersAtRest

\* ---------------------------------------------------------------- actions

\* The memory of the process is gone.
ClearRun ==
    /\ dataFile' = <<>>
    /\ filesToDownload' = <<>>
    /\ queue' = <<>>
    /\ active' = <<>>
    /\ raceSettled' = FALSE
    /\ stats' = ZeroStats
    /\ loaded' = <<>>
    /\ dispatched' = <<>>
    /\ unpersisted' = {}
    /\ persistFailed' = FALSE

\* The files one discovery scan reports: ids 1..n (ids are named in the order
\* of their first discovery), each with the declared size of that scan.
ScanResult(n, size) == [i \in 1..n |-> NewFileEntry(i, size)]

\* `for (const file of filteredFiles) dataFile = upsertFile(dataFile, file)`
RECURSIVE UpsertAll(_, _)
UpsertAll(files, found) ==
    IF found = <<>> THEN files
    ELSE UpsertAll(upsertFile(files, Head(found)), Tail(found))

\* The discover command: discoverFiles loads the data file (update) or starts
\* from createDataFile(), upserts what the scan found and saves.  A scan
\* finds at least the files already known.
Discover(update, n, size) ==
    /\ mgr = "idle"
    /\ LET base == IF update THEN disk ELSE <<>>
       IN  /\ n >= Len(base)
           /\ disk' = UpsertAll(base, ScanResult(n, size))
    /\ UNCHANGED <<mgr, resumeExisting, concurrency, dataFile, filesToDownload,
                   queue, active, raceSettled, stats, loaded, dispatched,
                   unpersisted, persistFailed>>
    /\ UNCHANGED otherVars

\* Mutant: the loop tests the queue only and leaves executions in flight.
LoopDoneOnEmptyQueue(q, act) == q = <<>>

\* `while (queue.length > 0 || active.length > 0)` is left.
LoopDone(q, act) == q = <<>> /\ act = <<>>

\* DownloadManager.start up to its first wait: load, select the candidates,
\* and the first pass of downloadWithConcurrency.
StartRun(resume, c) ==
    /\ mgr = "idle"
    /\ resumeExisting' = resume
    /\ concurrency' = c
    /\ LET files == disk
           cands == getFilesToDownload(files, resume)
           ids == [i \in 1..Len(cands) |-> cands[i].id]
           f == Fill(ids, <<>>, files, <<>>, FillCount(ids, <<>>, c))
       IN  /\ loaded' = files
           /\ filesToDownload' = ids
           /\ IF Len(cands) = 0
              THEN /\ mgr' = "returned"
                   /\ stats' = ZeroStats
                   /\ dataFile' = files
                   /\ queue' = <<>>
                   /\ active' = <<>>
                   /\ dispatched' = <<>>
              ELSE /\ mgr' = "waiting"
                   /\ stats' = [ZeroStats EXCEPT !.total = Len(cands),
                                                 !.totalSize = SumSizes(cands)]
                   /\ dataFile' = f.files
                   /\ queue' = f.queue
                   /\ active' = f.active
                   /\ dispatched' = f.order
    /\ raceSettled' = FALSE
    /\ unpersisted' = {}
    /\ persistFailed' = FALSE
    /\ UNCHANGED disk
    /\ UNCHANGED otherVars

\* downloadWithConcurrency resumes after `await Promise.race(active)`: it
\* refills the free slots and waits again, or leaves the loop, and then start
\* calls the final saveDataFile.
LoopTurn ==
    /\ mgr = "waiting"
    /\ raceSettled
    /\ raceSettled' = FALSE
    /\ IF LoopDone(queue, active)
       THEN /\ mgr' = "finalPersist"
            /\ UNCHANGED <<dataFile, queue, active, dispatched>>
       ELSE LET f == Fill(queue, active, dataFile, dispatched,
                          FillCount(queue, active, concurrency))
            IN  /\ mgr' = "waiting"
                /\ dataFile' = f.files
                /\ queue' = f.queue
                /\ active' = f.active
                /\ dispatched' = f.order
    /\ UNCHANGED <<disk, resumeExisting, concurrency, filesToDownload,
                   stats, loaded, unpersisted,
                   persistFailed>>
    /\ UNCHANGED otherVars

Alive == mgr \in {"waiting", "finalPersist"}

Persisting(e) == e.pc \in {"persistStart", "persistOutcome"}

\* downloadSingleFile returns (normally or from its catch block) and the
\* .then callback of downloadWithConcurrency removes it from active.
EndExecution(k) ==
    /\ active' = RemoveAt(active, k)
    /\ raceSettled' = (raceSettled \/ mgr = "waiting")

\* saveDataFile returns: the snapshot with recomputed statistics is written
\* to a temp file and renamed over the data file.  After the in-progress
\* persist the transfer starts; after the outcome persist downloadSingleFile
\* returns.
SaveReturn(k) ==
    /\ Alive
    /\ k \in 1..Len(active)
    /\ Persisting(active[k])
    /\ disk' = dataFile
    /\ IF active[k].pc = "persistStart"
       THEN /\ active' = [active EXCEPT ![k].pc = "transfer",
                                        ![k].dirty = FALSE]
            /\ UNCHANGED raceSettled
       ELSE EndExecution(k)
    /\ UNCHANGED <<mgr, resumeExisting, concurrency, dataFile, filesToDownload,
                   queue, stats, loaded, dispatched,
                   unpersisted, persistFailed>>
    /\ UNCHANGED otherVars

\* Mutant: the catch block only logs.
CatchBlockLogsOnly(files, fileId, message) == files

\* The catch block of downloadSingleFile.
CatchBlock(files, fileId, message) ==
    updateFileStatus(files, fileId, "failed", Absent, message)

\* saveDataFile throws (createBackup, writeFile or rename failed); the path
\* keeps its content.  The exception reaches the catch of downloadSingleFile.
SaveThrow(k) ==
    /\ Alive
    /\ k \in 1..Len(active)
    /\ Persisting(active[k])
    /\ dataFile' = CatchBlock(dataFile, active[k].file, PersistMessage)
    /\ stats' = [stats EXCEPT !.failed = @ + 1]
    /\ persistFailed' = TRUE
    /\ unpersisted' = unpersisted \cup {active[k].file}
    /\ EndExecution(k)
    /\ UNCHANGED <<disk, mgr, resumeExisting, concurrency, filesToDownload,
                   queue, loaded, dispatched>>
    /\ UNCHANGED otherVars

\* Mutant: result.error is passed in the downloadPath position.
RecordOutcomeMisplacedError(files, fileId, success) ==
    IF success
    THEN updateFileStatus(files, fileId, "completed", OutputPath, Absent)
    ELSE updateFileStatus(files, fileId, "failed", RetryMessage, Absent)

\* The status after the transfer's result.
RecordOutcome(files, fileId, success) ==
    IF success
    THEN updateFileStatus(files, fileId, "completed", OutputPath, Absent)
    ELSE updateFileStatus(files, fileId, "failed", Absent, RetryMessage)

\* The run statistics after the transfer's result.
CountOutcome(st, size, success) ==
    IF success
    THEN [st EXCEPT !.completed = @ + 1, !.downloadedSize = @ + size]
    ELSE [st EXCEPT !.failed = @ + 1]

\* downloadFileWithRetry returns its result (it never throws), the outcome
\* is recorded and the second saveDataFile is called.
TransferDone(k, success) ==
    /\ Alive
    /\ k \in 1..Len(active)
    /\ active[k].pc = "transfer"
    /\ LET fileId == active[k].file
           idx == FindIndex(dataFile, fileId)
       IN  /\ dataFile' = RecordOutcome(dataFile, fileId, success)
           /\ stats' = CountOutcome(stats, dataFile[idx].size, success)
    /\ active' = [active EXCEPT ![k].pc = "persistOutcome", ![k].dirty = TRUE]
    /\ UNCHANGED <<disk, mgr, resumeExisting, concurrency, filesToDownload,
                   queue, raceSettled, loaded, dispatched,
                   unpersisted, persistFailed>>
    /\ UNCHANGED otherVars

\* The final saveDataFile of start returns.
FinalSave ==
    /\ mgr = "finalPersist"
    /\ mgr' = "returned"
    /\ disk' = dataFile
    /\ UNCHANGED <<resumeExisting, concurrency, dataFile, filesToDownload,
                   queue, active, raceSettled, stats, loaded,
                   dispatched, unpersisted, persistFailed>>
    /\ UNCHANGED otherVars

\* The final save throws: the catch of start rethrows and start rejects.
FinalThrow ==
    /\ mgr = "finalPersist"
    /\ mgr' = "rejected"
    /\ persistFailed' = TRUE
    /\ UNCHANGED <<disk, resumeExisting, concurrency, dataFile,
                   filesToDownload, queue, active, raceSettled, stats, 
                   loaded, dispatched, unpersisted>>
    /\ UNCHANGED otherVars

\* The process is killed during a run: only the data file survives.
Crash ==
    /\ Alive
    /\ mgr' = "crashed"
    /\ ClearRun
    /\ UNCHANGED <<disk, resumeExisting, concurrency>>
    /\ UNCHANGED otherVars

MaxActive == NumFiles

RunStep ==
    \/ LoopTurn
    \/ \E k \in 1..MaxActive : SaveReturn(k)
    \/ \E k \in 1..MaxActive : SaveThrow(k)
    \/ \E k \in 1..MaxActive, success \in BOOLEAN : TransferDone(k, success)
    \/ FinalSave
    \/ FinalThrow

Start == \E resume \in BOOLEAN, c \in ConcurrencyChoices : StartRun(resume, c)

Scan ==
    \E update \in BOOLEAN, n \in FileIds, size \in Sizes :
        Discover(update, n, size)

Next == Scan \/ Start \/ RunStep \/ Crash

Spec == Init /\ [][Next]_vars

\* A download run over the data file a discovery wrote (n pending files), in
\* which every transfer and every persist eventually returns and the process
\* is not killed.
FairInit == Init /\ \E n \in 0..NumFiles : disk = DataFileWith(0, 0, 0, n)

FairNext == Start \/ RunStep

FairSpec == FairInit /\ [][FairNext]_vars /\ WF_vars(RunStep)

\* ------------------------------------------- saves of one run, step by step
\* The manager's variables while no DownloadManager is modelled.
ManagerAtRest ==
    /\ disk = <<>>
    /\ mgr = "idle"
    /\ resumeExisting = FALSE
    /\ concurrency = 0
    /\ dataFile = <<>>
    /\ filesToDownload = <<>>
    /\ queue = <<>>
    /\ active = <<>>
    /\ raceSettled = FALSE
    /\ stats = ZeroStats
    /\ loaded = <<>>
    /\ dispatched = <<>>
    /\ unpersisted = {}
    /\ persistFailed = FALSE

\* The data file a discovery of n files wrote.
Discovered(n) ==
    updateStatistics([groups |-> <<>>, files |-> DataFileWith(0, 0, 0, n),
                      statistics |-> ZeroStatistics])

\* A run over NumSavers pending jobs with concurrency NumSavers, before
\* DownloadManager.start is called.
SaveInit ==
    /\ ManagerAtRest
    /\ UpsertAtRest
    /\ RetryAtRest
    /\ CliAtRest
    /\ clock = 0
    /\ primary = Json(Discovered(NumSavers))
    /\ backups = NoFile
    /\ temps = NoFile
    /\ snapshot = createDataFile
    /\ saves = [e \in {FinalSaver} \cup Savers |-> NoSave]
    /\ loadResult = NoLoad

\* saveDataFile is called: it runs up to `await fileExists(filePath)`.
CallSave(sv, phase) ==
    [NoSave EXCEPT !.pc = "fileExists", !.phase = phase]

\* start loads the data file and downloadWithConcurrency starts the
\* executions: each marks its job in-progress and calls saveDataFile.
CallSaves ==
    /\ \A e \in DOMAIN saves : saves[e].pc = "queued"
    /\ primary.kind = "json"
    /\ loadResult' = [outcome |-> "returned", source |-> "primary"]
    /\ LET data == primary.data
           ids == [i \in 1..Len(data.files) |-> data.files[i].id]
       IN  snapshot' =
              [data EXCEPT !.files =
                  Fill(ids, <<>>, data.files, <<>>,
                       FillCount(ids, <<>>, NumSavers)).files]
    /\ saves' = [e \in DOMAIN saves |->
                    IF e \in Savers THEN CallSave(saves[e], 1) ELSE saves[e]]
    /\ UNCHANGED <<clock, primary, backups, temps>>
    /\ UNCHANGED nonStoreVars

\* The time a call reads: the clock has moved on since it was last read,
\* or it has not.
ReadClock(now) == now \in Times /\ now >= clock /\ clock' = now

\* Mutant: the snapshot is written with the statistics it carries.
BeginAtomicWriteAsPassed(sv, data, now) ==
    [sv EXCEPT !.content = data, !.temp = now, !.pc = "open"]

\* saveDataFile goes on after the backup: updateStatistics, JSON.stringify
\* of the snapshot as it is now, and atomicWrite up to its writeFile.
BeginAtomicWrite(sv, data, now) ==
    [sv EXCEPT !.content = updateStatistics(data), !.temp = now,
               !.pc = "open"]

\* `await fileExists(filePath)` resolves; createBackup names the backup by
\* the time of its call and copies.
AccessDone(e, now) ==
    /\ e \in DOMAIN saves
    /\ saves[e].pc = "fileExists"
    /\ ReadClock(now)
    /\ saves' = [saves EXCEPT ![e] =
                    IF primary.kind = "absent"
                    THEN BeginAtomicWrite(@, snapshot, now)
                    ELSE [@ EXCEPT !.stamp = now, !.pc = "copyFile"]]
    /\ UNCHANGED <<primary, backups, temps, snapshot, loadResult>>
    /\ UNCHANGED nonStoreVars

\* fs.copyFile(filePath, backupPath) is done.
CopyFileDone(e, now) ==
    /\ e \in DOMAIN saves
    /\ saves[e].pc = "copyFile"
    /\ ReadClock(now)
    /\ backups' = [backups EXCEPT ![saves[e].stamp] = primary]
    /\ saves' = [saves EXCEPT ![e] = BeginAtomicWrite(@, snapshot, now)]
    /\ UNCHANGED <<primary, temps, snapshot, loadResult>>
    /\ UNCHANGED nonStoreVars

\* The file a descriptor is open on after `rename(temp t, filePath)`.
AfterRename(svs, t) ==
    [x \in DOMAIN svs |->
        IF svs[x].fd = "temp" /\ svs[x].temp = t
        THEN [svs[x] EXCEPT !.fd = "primary"]
        ELSE IF svs[x].fd = "primary"
        THEN [svs[x] EXCEPT !.fd = "orphan"]
        ELSE svs[x]]

\* The file a descriptor is open on after `unlink(temp t)`.
AfterUnlink(svs, t) ==
    [x \in DOMAIN svs |->
        IF svs[x].fd = "temp" /\ svs[x].temp = t
        THEN [svs[x] EXCEPT !.fd = "orphan"]
        ELSE svs[x]]

\* fs.writeFile opens the temp file: created, or truncated when it exists.
OpenDone(e) ==
    /\ e \in DOMAIN saves
    /\ saves[e].pc = "open"
    /\ temps' = [temps EXCEPT ![saves[e].temp] = Unparsable]
    /\ saves' = [saves EXCEPT ![e].fd = "temp", ![e].pc = "write"]
    /\ UNCHANGED <<clock, primary, backups, snapshot, loadResult>>
    /\ UNCHANGED nonStoreVars

\* fs.writeFile writes the content to the file its descriptor is open on,
\* and closes it.
WriteDone(e) ==
    /\ e \in DOMAIN saves
    /\ saves[e].pc = "write"
    /\ temps' = IF saves[e].fd = "temp"
                THEN [temps EXCEPT ![saves[e].temp] = Json(saves[e].content)]
                ELSE temps
    /\ primary' = IF saves[e].fd = "primary" THEN Json(saves[e].content)
                  ELSE primary
    /\ saves' = [saves EXCEPT ![e].fd = "none", ![e].pc = "rename"]
    /\ UNCHANGED <<clock, backups, snapshot, loadResult>>
    /\ UNCHANGED nonStoreVars

\* saveDataFile rethrows: an execution's catch block marks its job failed
\* and the execution ends; the final save makes start reject.
Thrown(svs, e) ==
    [svs EXCEPT ![e].pc = "ended", ![e].fd = "none", ![e].outcome = "threw"]

SnapshotAfterThrow(data, e) ==
    IF e \in Savers
    THEN [data EXCEPT !.files = CatchBlock(@, e, PersistMessage)]
    ELSE data

\* fs.writeFile fails (the disk is full); the catch of atomicWrite unlinks
\* the temp path and rethrows.
WriteFails(e) ==
    /\ e \in DOMAIN saves
    /\ saves[e].pc = "write"
    /\ temps' = [temps EXCEPT ![saves[e].temp] = Missing]
    /\ saves' = Thrown(AfterUnlink(saves, saves[e].temp), e)
    /\ snapshot' = SnapshotAfterThrow(snapshot, e)
    /\ UNCHANGED <<clock, primary, backups, loadResult>>
    /\ UNCHANGED nonStoreVars

\* saveDataFile returns: after the in-progress persist the transfer starts,
\* after the outcome persist the execution ends.
Returned(svs, e) ==
    [svs EXCEPT ![e].pc = IF svs[e].phase = 1 THEN "transfer" ELSE "ended",
                ![e].outcome = "returned"]

\* fs.rename(tempPath, filePath) is done: the temp file is now the data
\* file, or there is no temp file of that name and atomicWrite rethrows.
RenameDone(e) ==
    /\ e \in DOMAIN saves
    /\ saves[e].pc = "rename"
    /\ LET t == saves[e].temp
       IN  IF temps[t].kind # "absent"
           THEN /\ primary' = temps[t]
                /\ temps' = [temps EXCEPT ![t] = Missing]
                /\ saves' = Returned(AfterRename(saves, t), e)
                /\ UNCHANGED snapshot
           ELSE /\ saves' = Thrown(saves, e)
                /\ snapshot' = SnapshotAfterThrow(snapshot, e)
                /\ UNCHANGED <<primary, temps>>
    /\ UNCHANGED <<clock, backups, loadResult>>
    /\ UNCHANGED nonStoreVars

\* downloadFileWithRetry returns, the outcome is recorded in the snapshot
\* and saveDataFile is called again.
TransferReturns(e, success) ==
    /\ e \in Savers \cap DOMAIN saves
    /\ saves[e].pc = "transfer"
    /\ snapshot' = [snapshot EXCEPT !.files = RecordOutcome(@, e, success)]
    /\ saves' = [saves EXCEPT ![e] = CallSave(@, 2)]
    /\ UNCHANGED <<clock, primary, backups, temps, loadResult>>
    /\ UNCHANGED nonStoreVars

\* Mutant: the loop is left when the first execution has ended.
FirstExecutionEnded ==
    \E e \in Savers \cap DOMAIN saves : saves[e].pc = "ended"

\* `await this.downloadWithConcurrency(filesToDownload)` is over: the queue
\* and active are empty.
ExecutionsEnded ==
    \A e \in Savers \cap DOMAIN saves : saves[e].pc = "ended"

\* Every execution has ended: start calls its final saveDataFile.
CallFinalSave ==
    /\ ExecutionsEnded
    /\ saves[FinalSaver].pc = "queued"
    /\ saves' = [saves EXCEPT ![FinalSaver] = CallSave(@, 3)]
    /\ UNCHANGED <<clock, primary, backups, temps, snapshot, loadResult>>
    /\ UNCHANGED nonStoreVars

SaveStep ==
    \/ \E e \in {FinalSaver} \cup Savers, now \in Times : AccessDone(e, now)
    \/ \E e \in {FinalSaver} \cup Savers, now \in Times : CopyFileDone(e, now)
    \/ \E e \in {FinalSaver} \cup Savers : OpenDone(e)
    \/ \E e \in {FinalSaver} \cup Savers : WriteDone(e)
    \/ \E e \in {FinalSaver} \cup Savers : WriteFails(e)
    \/ \E e \in {FinalSaver} \cup Savers : RenameDone(e)

SaveNext ==
    \/ CallSaves
    \/ SaveStep
    \/ \E e \in Savers, success \in BOOLEAN : TransferReturns(e, success)
    \/ CallFinalSave

SaveSpec == SaveInit /\ [][SaveNext]_vars

\* The same run over two pending jobs: two executions and the final save.
TwoJobsInit ==
    /\ ManagerAtRest
    /\ UpsertAtRest
    /\ RetryAtRest
    /\ CliAtRest
    /\ clock = 0
    /\ primary = Json(Discovered(Cardinality(Savers \cap {1, 2})))
    /\ backups = NoFile
    /\ temps = NoFile
    /\ snapshot = createDataFile
    /\ saves = [e \in {FinalSaver} \cup (Savers \cap {1, 2}) |-> NoSave]
    /\ loadResult = NoLoad

TwoJobsSpec == TwoJobsInit /\ [][SaveNext]_vars

\* --------------------------------- load, save and crash, one call at a time
\* The newest backup: findLatestBackup sorts the names, which end in the
\* timestamp, and takes the last.  0 - 1 stands for null.
findLatestBackup(bk) ==
    LET present == {t \in Times : bk[t].kind # "absent"}
    IN  IF present = {} THEN 0 - 1
        ELSE CHOOSE t \in present : \A u \in present : u <= t

\* Mutant: a parse failure without backup gives a new empty data file.
loadDataFileDefaulting(prim, bk) ==
    IF prim.kind = "json"
    THEN [outcome |-> "returned", source |-> "primary", data |-> prim.data]
    ELSE IF prim.kind = "unparsable" /\ findLatestBackup(bk) >= 0
              /\ bk[findLatestBackup(bk)].kind = "json"
    THEN [outcome |-> "returned", source |-> "backup",
          data |-> bk[findLatestBackup(bk)].data]
    ELSE [outcome |-> "returned", source |-> "created",
          data |-> createDataFile]

\* loadDataFile: what it returns or that it throws, from the data file and
\* its backups.
loadDataFile(prim, bk) ==
    IF prim.kind = "absent"
    THEN [outcome |-> "returned", source |-> "created",
          data |-> createDataFile]
    ELSE IF prim.kind = "json"
    THEN [outcome |-> "returned", source |-> "primary", data |-> prim.data]
    ELSE LET backupPath == findLatestBackup(bk)
         IN  IF backupPath >= 0 /\ bk[backupPath].kind = "json"
             THEN [outcome |-> "returned", source |-> "backup",
                   data |-> bk[backupPath].data]
             ELSE [outcome |-> "raised", source |-> "none",
                   data |-> createDataFile]

\* No file yet, no call made; one saveDataFile call at a time.
LoadInit ==
    /\ ManagerAtRest
    /\ UpsertAtRest
    /\ RetryAtRest
    /\ CliAtRest
    /\ clock = 0
    /\ primary = Missing
    /\ backups = NoFile
    /\ temps = NoFile
    /\ snapshot = createDataFile
    /\ saves = [e \in {FinalSaver} |-> NoSave]
    /\ loadResult = NoLoad

\* No saveDataFile call is in flight.
Settled == \A e \in DOMAIN saves : saves[e].pc \in {"queued", "ended"}

\* A command (discover, download) starts by calling loadDataFile and keeps
\* what it returns; when it throws the command fails.
Load ==
    /\ Settled
    /\ loadResult.outcome = "none"
    /\ LET r == loadDataFile(primary, backups)
       IN  /\ loadResult' = [outcome |-> r.outcome, source |-> r.source]
           /\ snapshot' = IF r.outcome = "returned" THEN r.data ELSE snapshot
    /\ UNCHANGED <<clock, primary, backups, temps, saves>>
    /\ UNCHANGED nonStoreVars

\* discoverFiles upserts the group it scanned and the file it found into
\* the loaded snapshot (the group of this data file holds one file).
UpsertFound ==
    /\ Settled
    /\ loadResult.outcome = "returned"
    /\ snapshot.files = <<>>
    /\ snapshot' = [snapshot EXCEPT
                       !.groups = upsertGroup(@, NewGroup(1, "title")),
                       !.files = upsertFile(@, NewFileEntry(Len(@) + 1, 100))]
    /\ UNCHANGED <<clock, primary, backups, temps, saves, loadResult>>
    /\ UNCHANGED nonStoreVars

\* A download run records the outcome of the pending job in the snapshot.
OutcomeRecorded(success) ==
    /\ Settled
    /\ loadResult.outcome = "returned"
    /\ snapshot.files # <<>>
    /\ snapshot.files[Len(snapshot.files)].downloadStatus = "pending"
    /\ snapshot' = [snapshot EXCEPT !.files =
                       RecordOutcome(@, Len(@), success)]
    /\ UNCHANGED <<clock, primary, backups, temps, saves, loadResult>>
    /\ UNCHANGED nonStoreVars

\* The command saves the snapshot it loaded.
SaveCalled ==
    /\ Settled
    /\ loadResult.outcome = "returned"
    /\ saves' = [saves EXCEPT ![FinalSaver] = CallSave(@, 3)]
    /\ UNCHANGED <<clock, primary, backups, temps, snapshot, loadResult>>
    /\ UNCHANGED nonStoreVars

\* The file at filePath is damaged from outside the program: it is no
\* longer valid JSON.
Damage ==
    /\ Settled
    /\ primary.kind = "json"
    /\ primary' = Unparsable
    /\ UNCHANGED <<clock, backups, temps, snapshot, saves, loadResult>>
    /\ UNCHANGED nonStoreVars

\* The process ends or is killed: the files stay as they are, the memory
\* is gone.
Killed ==
    /\ loadResult.outcome # "none"
    /\ saves' = [e \in DOMAIN saves |-> NoSave]
    /\ snapshot' = createDataFile
    /\ loadResult' = NoLoad
    /\ UNCHANGED <<clock, primary, backups, temps>>
    /\ UNCHANGED nonStoreVars

LoadNext ==
    \/ Load
    \/ UpsertFound
    \/ \E success \in BOOLEAN : OutcomeRecorded(success)
    \/ SaveCalled
    \/ SaveStep
    \/ Damage
    \/ Killed

LoadSpec == LoadInit /\ [][LoadNext]_vars

\* ------------------------------------- upserts and status updates in memory
UpsertIds == 1..MaxIds

EntryOfId(files, fileId) == files[FindIndex(files, fileId)]

\* An empty snapshot: createDataFile().
UpsertInit ==
    /\ ManagerAtRest
    /\ StoreAtRest
    /\ UpsertAtRest
    /\ RetryAtRest
    /\ CliAtRest

\* discoverFiles upserts a file it found; ids can come again.
UpsertFileCall(fileId, size) ==
    /\ lastCall' = [op |-> "upsertFile", file |-> NewFileEntry(fileId, size)]
    /\ snapshot' = [snapshot EXCEPT !.files =
                       upsertFile(@, NewFileEntry(fileId, size))]
    /\ UNCHANGED <<mgrVars, onDisk, retryVars, cliVars>>

\* discoverFiles upserts a group it scanned.
UpsertGroupCall(title) ==
    /\ lastCall' = [NoCall EXCEPT !.op = "upsertGroup"]
    /\ snapshot' = [snapshot EXCEPT !.groups =
                       upsertGroup(@, NewGroup(1, title))]
    /\ UNCHANGED <<mgrVars, onDisk, retryVars, cliVars>>

\* The updateFileStatus calls downloadSingleFile makes for a job: in-progress
\* on a candidate (pending, or failed in resume mode), then the outcome.
StatusUpdates(files, fileId) ==
    IF EntryOfId(files, fileId).downloadStatus \in {"pending", "failed"}
    THEN {updateFileStatus(files, fileId, "in-progress", Absent, Absent)}
    ELSE IF EntryOfId(files, fileId).downloadStatus = "in-progress"
    THEN {RecordOutcome(files, fileId, TRUE),
          RecordOutcome(files, fileId, FALSE)}
    ELSE {}

\* The scheduler updates the status of a job of the snapshot.
StatusUpdateCall(fileId) ==
    /\ FindIndex(snapshot.files, fileId) > 0
    /\ lastCall' = [NoCall EXCEPT !.op = "updateFileStatus"]
    /\ \E updated \in StatusUpdates(snapshot.files, fileId) :
          snapshot' = [snapshot EXCEPT !.files = updated]
    /\ UNCHANGED <<mgrVars, onDisk, retryVars, cliVars>>

UpsertNext ==
    \/ \E fileId \in UpsertIds, size \in Sizes : UpsertFileCall(fileId, size)
    \/ \E title \in GroupTitles : UpsertGroupCall(title)
    \/ \E fileId \in UpsertIds : StatusUpdateCall(fileId)

UpsertSpec == UpsertInit /\ [][UpsertNext]_vars

\* --------------------------------------- downloadFileWithRetry, step by step
DefaultRetryAttempts == 3    \* `retryAttempts || 3`

RetryChoices == {0, 1, 2}    \* config.download.retryAttempts (0: not set)

DeclaredSize == 100          \* file.size
BufferSizes == {50, 100}     \* bytes downloadMedia can return
LeftoverSize == 50           \* bytes of a .part file a killed run left
ExistingSize == 70           \* bytes of a file already at outputPath

FailedAfterMessage(maxAttempts) ==
    Message("Failed after N attempts", maxAttempts, 0)

SizeMismatchMessage(downloaded, expected) ==
    Message("Downloaded size (N) does not match expected size (M)",
            downloaded, expected)

\* `{ success: false, file, error: error.message }`
Failure(code, message) ==
    [returned |-> TRUE, success |-> FALSE, error |-> message, code |-> code,
     skipped |-> FALSE]

\* `{ success: true, file, downloadPath: outputPath }`
Success(skipped) ==
    [returned |-> TRUE, success |-> TRUE, error |-> NoMessage, code |-> "",
     skipped |-> skipped]

\* The ways a call to the Telegram client makes the attempt fail: the step,
\* the code of the DownloadError thrown ("" for the client's own error) and
\* the wording of its message.
RemoteFailures ==
    {<<"getEntity", "ENTITY_NOT_FOUND", "Could not find group with ID">>,
     <<"getMessages", "MESSAGE_NOT_FOUND", "Message not found for file">>,
     <<"getMessages", "NOT_A_DOCUMENT",
       "Message does not contain a document for file">>,
     <<"getMessages", "", "network error">>,
     <<"downloadMedia", "DOWNLOAD_FAILED", "Failed to download file">>,
     <<"downloadMedia", "", "network error">>}

\* A job of declared size 100; a killed run can have left a .part file, and
\* a file can be at the output path already.
RetryInit ==
    /\ ManagerAtRest
    /\ StoreAtRest
    /\ UpsertAtRest
    /\ CliAtRest
    /\ retry = NoRetry
    /\ partFile \in {NoBytes, LeftoverSize}
    /\ finalFile \in {NoBytes, ExistingSize}
    /\ attemptResult = NoResult
    /\ result = NoResult
    /\ previous = NoResult
    /\ flood = NoFlood

\* Mutant: a delay follows every failed attempt.
ShouldDelayAlways(attempt, maxAttempts) == TRUE

\* `if (attempt < maxAttempts)`: do not retry on the last attempt.
ShouldDelay(attempt, maxAttempts) == attempt < maxAttempts

\* `retryDelay || 5000`, milliseconds; the configuration leaves it unset.
DefaultRetryDelay == 5000

\* downloadFile returns r and the loop of downloadFileWithRetry goes on:
\* it returns the success, waits retryDelay, or leaves the loop and returns
\* the final failure.
AttemptReturns(r) ==
    /\ attemptResult' = r
    /\ IF r.success
       THEN /\ retry' = [retry EXCEPT !.pc = "returned"]
            /\ result' = r
       ELSE IF ShouldDelay(retry.attempt, retry.maxAttempts)
       THEN /\ retry' = [retry EXCEPT !.pc = "delay", !.delays = @ + 1,
                                      !.waitMs = DefaultRetryDelay]
            /\ UNCHANGED result
       ELSE /\ retry' = [retry EXCEPT !.pc = "returned"]
            /\ result' = Failure("", FailedAfterMessage(retry.maxAttempts))

\* `fs.unlink(tempPath)`: the temp file is gone, if there was one.
Unlinked(bytes) == NoBytes

\* An error thrown inside the inner try: its catch unlinks the temp path
\* and rethrows, the outer catch returns the failure.
Caught(code, message) ==
    /\ partFile' = Unlinked(partFile)
    /\ AttemptReturns(Failure(code, message))
    /\ UNCHANGED finalFile

\* downloadFileWithRetry is called, for the first time or again for the
\* same job; downloadFile runs up to ensureDir.
CallRetry(retryAttempts, overwriteExisting) ==
    /\ retry.pc \in {"idle", "returned"}
    /\ previous' = result
    /\ flood' = NoFlood
    /\ attemptResult' = NoResult
    /\ result' = NoResult
    /\ retry' = [NoRetry EXCEPT
                    !.pc = "ensureDir",
                    !.attempt = 1,
                    !.maxAttempts = IF retryAttempts = 0
                                    THEN DefaultRetryAttempts
                                    ELSE retryAttempts,
                    !.overwriteExisting = overwriteExisting]
    /\ UNCHANGED <<partFile, finalFile>>
    /\ UNCHANGED <<mgrVars, storeVars, upsertVars, cliVars>>

\* The output directory exists; without overwriteExisting the output path
\* is looked up.
EnsureDirDone ==
    /\ retry.pc = "ensureDir"
    /\ retry' = IF retry.overwriteExisting
                THEN [retry EXCEPT !.pc = "getEntity", !.remote = @ + 1]
                ELSE [retry EXCEPT !.pc = "access"]
    /\ UNCHANGED <<partFile, finalFile, attemptResult, result>>
    /\ UNCHANGED <<mgrVars, storeVars, upsertVars, cliVars, previous, flood>>

\* mkdir throws: the outer catch returns the failure.  With `recursive`
\* mkdir does not throw for a directory that is there, and the directory is
\* there when a file is in it.
EnsureDirFails ==
    /\ retry.pc = "ensureDir"
    /\ partFile = NoBytes
    /\ finalFile = NoBytes
    /\ AttemptReturns(Failure("", Message("EACCES: mkdir", 0, 0)))
    /\ UNCHANGED <<partFile, finalFile>>
    /\ UNCHANGED <<mgrVars, storeVars, upsertVars, cliVars, previous, flood>>

\* Mutant: fs.access always throws.
AccessNeverResolves(final) == FALSE

\* `await fs.access(outputPath)` resolves: a file is at the output path.
AccessResolves(final) == final # NoBytes

\* `fs.access(outputPath)`: a file is there and downloadFile returns success
\* at once, or none is and the download begins with client.getEntity.
ExistsChecked ==
    /\ retry.pc = "access"
    /\ IF AccessResolves(finalFile)
       THEN AttemptReturns(Success(TRUE))
       ELSE /\ retry' = [retry EXCEPT !.pc = "getEntity", !.remote = @ + 1]
            /\ UNCHANGED <<attemptResult, result>>
    /\ UNCHANGED <<partFile, finalFile>>
    /\ UNCHANGED <<mgrVars, storeVars, upsertVars, cliVars, previous, flood>>

\* client.getEntity returns and client.getMessages is called.
GetEntityDone ==
    /\ retry.pc = "getEntity"
    /\ retry' = [retry EXCEPT !.pc = "getMessages", !.remote = @ + 1]
    /\ UNCHANGED <<partFile, finalFile, attemptResult, result>>
    /\ UNCHANGED <<mgrVars, storeVars, upsertVars, cliVars, previous, flood>>

\* client.getMessages returns a message with a document.
GetMessagesDone ==
    /\ retry.pc = "getMessages"
    /\ retry' = [retry EXCEPT !.pc = "downloadMedia", !.remote = @ + 1]
    /\ UNCHANGED <<partFile, finalFile, attemptResult, result>>
    /\ UNCHANGED <<mgrVars, storeVars, upsertVars, cliVars, previous, flood>>

\* client.downloadMedia returns a buffer; fs.writeFile is called on it.
DownloadMediaDone(bytes) ==
    /\ retry.pc = "downloadMedia"
    /\ retry' = [retry EXCEPT !.pc = "writeFile", !.buffer = bytes]
    /\ UNCHANGED <<partFile, finalFile, attemptResult, result>>
    /\ UNCHANGED <<mgrVars, storeVars, upsertVars, cliVars, previous, flood>>

\* A call to the client throws or returns nothing usable.
RemoteFails(failure) ==
    /\ retry.pc = failure[1]
    /\ Caught(failure[2], Message(failure[3], 0, 0))
    /\ UNCHANGED <<mgrVars, storeVars, upsertVars, cliVars, previous, flood>>

\* The seconds a FloodWaitError carries; 0: it carries none.
FloodSeconds == {0, 30}

\* handleFloodWait: the milliseconds it waits, `(error.seconds || 60) * 1000`.
handleFloodWait(seconds) == (IF seconds = 0 THEN 60 ELSE seconds) * 1000

\* A call to the client is told to wait (errorMessage FLOOD).  The error is
\* handled as every other error of that call: getEntity's becomes
\* ENTITY_NOT_FOUND, the others fail the attempt with their message.
FloodSignalled(call, seconds) ==
    /\ call \in {"getEntity", "getMessages", "downloadMedia"}
    /\ retry.pc = call
    /\ flood.call = "none"
    /\ flood' = [call |-> call, seconds |-> seconds]
    /\ IF call = "getEntity"
       THEN Caught("ENTITY_NOT_FOUND",
                   Message("Could not find group with ID", 0, 0))
       ELSE Caught("", Message("A wait of N seconds is required", seconds, 0))
    /\ UNCHANGED <<mgrVars, storeVars, upsertVars, cliVars, previous>>

\* fs.writeFile(tempPath, buffer) is done.
WriteFileDone ==
    /\ retry.pc = "writeFile"
    /\ partFile' = retry.buffer
    /\ retry' = [retry EXCEPT !.pc = "stat"]
    /\ UNCHANGED <<finalFile, attemptResult, result>>
    /\ UNCHANGED <<mgrVars, storeVars, upsertVars, cliVars, previous, flood>>

\* fs.writeFile throws (the disk is full).
WriteFileFails ==
    /\ retry.pc = "writeFile"
    /\ Caught("", Message("ENOSPC: write", 0, 0))
    /\ UNCHANGED <<mgrVars, storeVars, upsertVars, cliVars, previous, flood>>

\* Mutant: the size is not compared.
SizeVerifiedAlways(written, declared) == TRUE

\* `stats.size !== file.size` does not hold.
SizeVerified(written, declared) == written = declared

\* fs.stat(tempPath) returns: the size is verified and fs.rename is called,
\* or a DownloadError SIZE_MISMATCH is thrown.
StatDone ==
    /\ retry.pc = "stat"
    /\ IF SizeVerified(partFile, DeclaredSize)
       THEN /\ retry' = [retry EXCEPT !.pc = "rename"]
            /\ UNCHANGED <<partFile, finalFile, attemptResult, result>>
       ELSE Caught("SIZE_MISMATCH",
                   SizeMismatchMessage(partFile, DeclaredSize))
    /\ UNCHANGED <<mgrVars, storeVars, upsertVars, cliVars, previous, flood>>

\* Mutant: the temp file is copied to the output path and stays.
RenamedKeepingTemp(temp, final) == [temp |-> temp, final |-> temp]

\* `fs.rename(tempPath, outputPath)`: the two paths afterwards.
Renamed(temp, final) == [temp |-> NoBytes, final |-> temp]

\* fs.rename is done and downloadFile returns success.
RenamedToOutput ==
    /\ retry.pc = "rename"
    /\ partFile' = Renamed(partFile, finalFile).temp
    /\ finalFile' = Renamed(partFile, finalFile).final
    /\ AttemptReturns(Success(FALSE))
    /\ UNCHANGED <<mgrVars, storeVars, upsertVars, cliVars, previous, flood>>

\* The retry delay is over: the next attempt begins.
DelayDone ==
    /\ retry.pc = "delay"
    /\ retry' = [retry EXCEPT !.pc = "ensureDir", !.attempt = @ + 1,
                              !.buffer = NoBytes, !.remote = 0,
                              !.waitMs = 0]
    /\ UNCHANGED <<partFile, finalFile, attemptResult, result>>
    /\ UNCHANGED <<mgrVars, storeVars, upsertVars, cliVars, previous, flood>>

RetryNext ==
    \/ \E retryAttempts \in RetryChoices, overwriteExisting \in BOOLEAN :
          CallRetry(retryAttempts, overwriteExisting)
    \/ EnsureDirDone
    \/ EnsureDirFails
    \/ ExistsChecked
    \/ GetEntityDone
    \/ GetMessagesDone
    \/ \E bytes \in BufferSizes : DownloadMediaDone(bytes)
    \/ \E failure \in RemoteFailures : RemoteFails(failure)
    \/ \E call \in {"getEntity", "getMessages", "downloadMedia"},
          seconds \in FloodSeconds : FloodSignalled(call, seconds)
    \/ WriteFileDone
    \/ WriteFileFails
    \/ StatDone
    \/ RenamedToOutput
    \/ DelayDone

RetrySpec == RetryInit /\ [][RetryNext]_vars

\* ----------------------------------------------------------- SecretStore
\* The characters of a stored string: the 64 base64 digits by their value,
\* the padding `=` and the separator `:`.
Base64Digits == 0..63
PadChar == 64
Colon == 65

\* Plaintexts as sequences of Unicode code points: "", "h", "é", "{hé}".
Plaintexts == {<<>>, <<104>>, <<233>>, <<123, 104, 233, 125>>}

Passwords == {NoPassword, "", "a", "b"}

\* crypto.randomBytes(IV_LENGTH), one byte wide here.
Ivs == {0, 255}

MachineId == "machine"       \* getMachineId()

\* `password || machineId`: an empty password is falsy.
keyMaterial(password) ==
    IF password \in {NoPassword, ""} THEN MachineId ELSE password

\* pbkdf2Sync(keyMaterial, salt, ...): one key for each key material.
deriveKey(password) ==
    CASE keyMaterial(password) = MachineId -> 0
      [] keyMaterial(password) = "a" -> 1
      [] keyMaterial(password) = "b" -> 2

\* The 'utf-8' input encoding of cipher.update, for code points below 2048.
RECURSIVE Utf8Encode(_)
Utf8Encode(text) ==
    IF text = <<>> THEN <<>>
    ELSE (IF Head(text) < 128
          THEN <<Head(text)>>
          ELSE <<192 + (Head(text) \div 64), 128 + (Head(text) % 64)>>)
         \o Utf8Encode(Tail(text))

\* Mutant: every byte is taken as one character.
Utf8DecodeBytewise(bytes) == bytes

\* The 'utf-8' output encoding of decipher.update and decipher.final.
RECURSIVE Utf8Decode(_)
Utf8Decode(bytes) ==
    IF bytes = <<>> THEN <<>>
    ELSE IF Head(bytes) < 128
    THEN <<Head(bytes)>> \o Utf8Decode(Tail(bytes))
    ELSE IF Len(bytes) >= 2
    THEN <<(bytes[1] - 192) * 64 + (bytes[2] - 128)>>
         \o Utf8Decode(Tail(Tail(bytes)))
    ELSE <<65533>>

\* toString('base64') and the 'base64' output encoding: four digits for
\* three bytes, the last group padded with `=`.
RECURSIVE Base64Encode(_)
Base64Encode(bytes) ==
    IF Len(bytes) = 0 THEN <<>>
    ELSE IF Len(bytes) = 1
    THEN <<bytes[1] \div 4, (bytes[1] % 4) * 16, PadChar, PadChar>>
    ELSE IF Len(bytes) = 2
    THEN <<bytes[1] \div 4,
           (bytes[1] % 4) * 16 + (bytes[2] \div 16),
           (bytes[2] % 16) * 4,
           PadChar>>
    ELSE <<bytes[1] \div 4,
           (bytes[1] % 4) * 16 + (bytes[2] \div 16),
           (bytes[2] % 16) * 4 + (bytes[3] \div 64),
           bytes[3] % 64>>
         \o Base64Encode(SubSeq(bytes, 4, Len(bytes)))

\* The digits of a base64 string before its padding.
Base64Data(chars) ==
    IF \E i \in 1..Len(chars) : chars[i] = PadChar
    THEN SubSeq(chars, 1,
                (CHOOSE i \in 1..Len(chars) :
                    /\ chars[i] = PadChar
                    /\ \A j \in 1..(i - 1) : chars[j] # PadChar) - 1)
    ELSE chars

\* The bytes of a run of digits: the bits of a last incomplete group that
\* do not fill a byte are dropped.
RECURSIVE Base64Bytes(_)
Base64Bytes(d) ==
    IF Len(d) >= 4
    THEN <<d[1] * 4 + (d[2] \div 16),
           (d[2] % 16) * 16 + (d[3] \div 4),
           (d[3] % 4) * 64 + d[4]>>
         \o Base64Bytes(SubSeq(d, 5, Len(d)))
    ELSE IF Len(d) = 3
    THEN <<d[1] * 4 + (d[2] \div 16), (d[2] % 16) * 16 + (d[3] \div 4)>>
    ELSE IF Len(d) = 2
    THEN <<d[1] * 4 + (d[2] \div 16)>>
    ELSE <<>>

\* Buffer.from(part, 'base64')
Base64Decode(chars) == Base64Bytes(Base64Data(chars))

RECURSIVE SumBytes(_)
SumBytes(bytes) ==
    IF bytes = <<>> THEN 0 ELSE Head(bytes) + SumBytes(Tail(bytes))

\* The cipher at the width of one byte: a key stream that depends on the
\* key, the iv and the position is added to the data (AES in counter mode
\* xors it), and the tag depends on the key, the iv and the ciphertext.
KeyStream(key, iv, i) == (key * 85 + iv * 3 + i) % 256

\* cipher.update(data, 'utf-8', ...) with cipher.final
CipherUpdate(key, iv, bytes) ==
    [i \in 1..Len(bytes) |-> (bytes[i] + KeyStream(key, iv, i)) % 256]

\* decipher.update(encrypted, ...)
DecipherUpdate(key, iv, bytes) ==
    [i \in 1..Len(bytes) |-> (bytes[i] + 256 - KeyStream(key, iv, i)) % 256]

\* cipher.getAuthTag(), and the tag decipher.final compares with.
getAuthTag(key, iv, bytes) == <<(key * 64 + iv + SumBytes(bytes)) % 256>>

\* `${iv}:${authTag}:${encrypted}`, all base64; iv is the random vector
\* the call has drawn.
encrypt(data, password, iv) ==
    LET key == deriveKey(password)
        body == CipherUpdate(key, iv, Utf8Encode(data))
    IN  Base64Encode(<<iv>>) \o <<Colon>>
        \o Base64Encode(getAuthTag(key, iv, body)) \o <<Colon>>
        \o Base64Encode(body)

\* encryptedData.split(':')
RECURSIVE Split(_)
Split(chars) ==
    IF \A i \in 1..Len(chars) : chars[i] # Colon
    THEN <<chars>>
    ELSE LET k == CHOOSE i \in 1..Len(chars) :
                     /\ chars[i] = Colon
                     /\ \A j \in 1..(i - 1) : chars[j] # Colon
         IN  <<SubSeq(chars, 1, k - 1)>>
             \o Split(SubSeq(chars, k + 1, Len(chars)))

DecryptThrows(password, error) ==
    [called |-> TRUE, threw |-> TRUE, text |-> <<>>, error |-> error,
     password |-> password]

DecryptReturns(password, text) ==
    [called |-> TRUE, threw |-> FALSE, text |-> text, error |-> "",
     password |-> password]

\* decrypt: the three parts are decoded, the tag is set (it has to have
\* the length of a tag) and decipher.final verifies it.
decrypt(encryptedData, password) ==
    LET key == deriveKey(password)
        parts == Split(encryptedData)
    IN  IF Len(parts) # 3
        THEN DecryptThrows(password, "Invalid encrypted data format")
        ELSE LET iv == Base64Decode(parts[1])
                 authTag == Base64Decode(parts[2])
                 body == Base64Decode(parts[3])
             IN  IF Len(iv) # 1
                 THEN DecryptThrows(password, "Invalid initialization vector")
                 ELSE IF Len(authTag) # 1
                 THEN DecryptThrows(password,
                                    "Invalid authentication tag length")
                 ELSE IF authTag # getAuthTag(key, iv[1], body)
                 THEN DecryptThrows(password,
                         "Unsupported state or unable to authenticate data")
                 ELSE DecryptReturns(password,
                         Utf8Decode(DecipherUpdate(key, iv[1], body)))

\* ----------------------------------------------------------- SessionSpec
\* The session a login creates, as JSON text: "{h}".
NewSessionText == <<123, 104, 125>>

\* JSON.parse(decrypted) returns an object: the text is `{...}`.
IsJson(text) ==
    /\ Len(text) >= 2
    /\ text[1] = 123
    /\ text[Len(text)] = 125

\* sessionData.sessionString
SessionString(text) == SubSeq(text, 2, Len(text) - 1)

\* No session file, no call yet.
SessionInit ==
    /\ ManagerAtRest
    /\ StoreAtRest
    /\ UpsertAtRest
    /\ RetryAtRest
    /\ ConfigAtRest
    /\ SideAtRest
    /\ sessionFile = <<>>
    /\ encrypted = NoEncrypt
    /\ decrypted = NoDecrypt
    /\ auth = NoAuth

\* saveSession of the session file module with `encrypted`: the content is
\* encrypted and written to the session file.
SaveSessionFile(data, password, iv) ==
    /\ ~encrypted.called
    /\ auth.pc = "idle"
    /\ encrypted' = [called |-> TRUE, data |-> data, password |-> password,
                     returned |-> encrypt(data, password, iv)]
    /\ sessionFile' = encrypt(data, password, iv)
    /\ UNCHANGED <<decrypted, auth>>
    /\ UNCHANGED <<mgrVars, storeVars, upsertVars, retryVars, configVars,
                   sideVars>>

\* The positions of the digits of the authTag segment.
AuthTagDigits(chars) ==
    {p \in 1..Len(chars) :
        /\ chars[p] \in Base64Digits
        /\ Cardinality({j \in 1..(p - 1) : chars[j] = Colon}) = 1}

\* The digit that differs from digit d in bit k of its six bits.
FlipBit(d, k) ==
    IF (d \div (2 ^ k)) % 2 = 1 THEN d - (2 ^ k) ELSE d + (2 ^ k)

\* The stored file is damaged: one digit of the authTag segment has become
\* another digit.
CorruptAuthTag(p, k) ==
    /\ encrypted.called
    /\ sessionFile = encrypted.returned
    /\ ~decrypted.called
    /\ auth.pc = "idle"
    /\ p \in AuthTagDigits(sessionFile)
    /\ sessionFile' = [sessionFile EXCEPT ![p] = FlipBit(@, k)]
    /\ UNCHANGED <<encrypted, decrypted, auth>>
    /\ UNCHANGED <<mgrVars, storeVars, upsertVars, retryVars, configVars,
                   sideVars>>

\* The stored file is damaged: it lost its last segment, or has one more.
Malform(more) ==
    /\ encrypted.called
    /\ sessionFile = encrypted.returned
    /\ ~decrypted.called
    /\ auth.pc = "idle"
    /\ sessionFile' =
          IF more
          THEN sessionFile \o <<Colon>>
          ELSE Split(sessionFile)[1] \o <<Colon>> \o Split(sessionFile)[2]
    /\ UNCHANGED <<encrypted, decrypted, auth>>
    /\ UNCHANGED <<mgrVars, storeVars, upsertVars, retryVars, configVars,
                   sideVars>>

\* decrypt is called on the content of the file.
DecryptCall(password) ==
    /\ sessionFile # <<>>
    /\ ~decrypted.called
    /\ auth.pc = "idle"
    /\ decrypted' = decrypt(sessionFile, password)
    /\ UNCHANGED <<sessionFile, encrypted, auth>>
    /\ UNCHANGED <<mgrVars, storeVars, upsertVars, retryVars, configVars,
                   sideVars>>

\* loadSession of the session file module, called without a password: what
\* it returns or that it throws, and the file it leaves (it saves the
\* session again, encrypted with a new iv).
loadSessionFile(content, iv) ==
    LET d == decrypt(content, NoPassword)
    IN  IF d.threw
        THEN [threw |-> TRUE, secret |-> TRUE, sessionString |-> <<>>,
              file |-> content]
        ELSE IF ~IsJson(d.text)
        THEN [threw |-> TRUE, secret |-> FALSE, sessionString |-> <<>>,
              file |-> content]
        ELSE [threw |-> FALSE, secret |-> FALSE,
              sessionString |-> SessionString(d.text),
              file |-> encrypt(d.text, NoPassword, iv)]

\* loadSession of the auth module: the session string, or '' when there is
\* no session or when loading it threw.
loadSession(content, iv) ==
    IF loadSessionFile(content, iv).threw
    THEN <<>>
    ELSE loadSessionFile(content, iv).sessionString

\* authenticate is called: without a session file it logs in; with one it
\* loads the session and goes on to validate it.
AuthenticateCall(iv) ==
    /\ auth.pc = "idle"
    /\ IF sessionFile = <<>>
       THEN /\ auth' = [auth EXCEPT !.pc = "login"]
            /\ UNCHANGED sessionFile
       ELSE /\ auth' = [auth EXCEPT
                           !.pc = "validate",
                           !.sessionString = loadSession(sessionFile, iv),
                           !.secretError =
                               loadSessionFile(sessionFile, iv).secret]
            /\ sessionFile' = loadSessionFile(sessionFile, iv).file
    /\ UNCHANGED <<encrypted, decrypted>>
    /\ UNCHANGED <<mgrVars, storeVars, upsertVars, retryVars, configVars,
                   sideVars>>

\* validateSession returns: the client is authorized (only with a session)
\* and authenticate returns it, or it is not and the client is closed.
ValidateDone(isValid) ==
    /\ auth.pc = "validate"
    /\ isValid => auth.sessionString # <<>>
    /\ auth' = [auth EXCEPT !.pc = IF isValid THEN "returned" ELSE "login"]
    /\ UNCHANGED <<sessionFile, encrypted, decrypted>>
    /\ UNCHANGED <<mgrVars, storeVars, upsertVars, retryVars, configVars,
                   sideVars>>

\* The login with a new client ends: saveSession writes the new session
\* over the file and authenticate returns, or the login throws and
\* authenticate rejects.
LoginDone(ok, iv) ==
    /\ auth.pc = "login"
    /\ IF ok
       THEN /\ sessionFile' = encrypt(NewSessionText, NoPassword, iv)
            /\ auth' = [auth EXCEPT
                           !.pc = "returned",
                           !.sessionString = SessionString(NewSessionText),
                           !.replaced = (sessionFile # <<>>)]
       ELSE /\ auth' = [auth EXCEPT !.pc = "rejected"]
            /\ UNCHANGED sessionFile
    /\ UNCHANGED <<encrypted, decrypted>>
    /\ UNCHANGED <<mgrVars, storeVars, upsertVars, retryVars, configVars,
                   sideVars>>

SessionNext ==
    \/ \E data \in Plaintexts, password \in Passwords, iv \in Ivs :
          SaveSessionFile(data, password, iv)
    \/ \E p \in 1..Len(sessionFile), k \in 0..5 : CorruptAuthTag(p, k)
    \/ \E more \in BOOLEAN : Malform(more)
    \/ \E password \in Passwords : DecryptCall(password)
    \/ \E iv \in Ivs : AuthenticateCall(iv)
    \/ \E isValid \in BOOLEAN : ValidateDone(isValid)
    \/ \E ok \in BOOLEAN, iv \in Ivs : LoginDone(ok, iv)

SessionSpec == SessionInit /\ [][SessionNext]_vars

\* ------------------------------------------------------------ ConfigSpec
MinConcurrency == 1
MaxConcurrency == 10

\* The concurrency values a configuration file can give.
ConcurrencyInputs == (0 - 2)..12

\* The configurations validateConfig is called on.
Configs ==
    [handlesValid : BOOLEAN,
     patternsValid : BOOLEAN,
     outputDir : {"", " ", "./out"},
     concurrency : {Unset} \cup {Given(n) : n \in ConcurrencyInputs},
     minSize : {Unset, Given(0 - 1), Given(5)},
     maxSize : {Unset, Given(0 - 1), Given(3)},
     maxSizeNull : {FALSE}]
    \cup {[EmptyConfig EXCEPT !.maxSizeNull = TRUE, !.minSize = m] :
             m \in {Unset, Given(5)}}

\* Mutant: the upper limit itself is rejected.
ConcurrencyOutOfRangeExclusive(c) == c < MinConcurrency \/ c >= MaxConcurrency

\* `concurrency < 1 || concurrency > 10`
ConcurrencyOutOfRange(c) == c < MinConcurrency \/ c > MaxConcurrency

ValidationThrows(code) == [called |-> TRUE, threw |-> TRUE, code |-> code]

\* validateConfig: the first check that fails throws its ValidationError;
\* otherwise the warnings are returned.
validateConfig(c) ==
    IF ~c.handlesValid THEN ValidationThrows("INVALID_HANDLE")
    ELSE IF ~c.patternsValid THEN ValidationThrows("INVALID_PATTERN")
    ELSE IF c.outputDir = " " THEN ValidationThrows("INVALID_PATH")
    ELSE IF c.concurrency.set /\ ConcurrencyOutOfRange(c.concurrency.value)
    THEN ValidationThrows("INVALID_CONCURRENCY")
    ELSE IF c.minSize.set /\ c.minSize.value < 0
    THEN ValidationThrows("INVALID_FILE_SIZE")
    ELSE IF c.maxSize.set /\ ~c.maxSizeNull /\ c.maxSize.value < 0
    THEN ValidationThrows("INVALID_FILE_SIZE")
    ELSE IF /\ c.minSize.set
            /\ c.maxSize.set
            /\ ~c.maxSizeNull
            /\ c.minSize.value > c.maxSize.value
    THEN ValidationThrows("INVALID_FILE_SIZE")
    ELSE [called |-> TRUE, threw |-> FALSE, code |-> ""]

\* A configuration file has been read and parsed.
ConfigInit ==
    /\ ManagerAtRest
    /\ StoreAtRest
    /\ UpsertAtRest
    /\ RetryAtRest
    /\ SessionAtRest
    /\ SideAtRest
    /\ config \in Configs
    /\ validation = NoValidation

\* loadConfig calls validateConfig on the parsed configuration.
ValidateConfigCall ==
    /\ ~validation.called
    /\ validation' = validateConfig(config)
    /\ UNCHANGED <<config, sessionFile, encrypted, decrypted, auth>>
    /\ UNCHANGED <<mgrVars, storeVars, upsertVars, retryVars, sideVars>>

ConfigNext == ValidateConfigCall

ConfigSpec == ConfigInit /\ [][ConfigNext]_vars

\* ------------------------------------------------- the names of the backups
MaxBackups == 2          \* createBackup calls on one data file

\* Instants of the clock (UTC), as the fields of a Date.
Instants ==
    [year : {1999, 2000}, month : {9, 10}, day : {1}, hours : {9, 10},
     minutes : {0}, seconds : {9, 10}, ms : {9, 10, 99, 100}]

DateFields(d) ==
    <<d.year, d.month, d.day, d.hours, d.minutes, d.seconds, d.ms>>

\* The order of time on two instants.
Before(a, b) ==
    \E i \in 1..7 :
        /\ \A j \in 1..(i - 1) : DateFields(a)[j] = DateFields(b)[j]
        /\ DateFields(a)[i] < DateFields(b)[i]

\* Characters are their UTF-16 code units: "0" is 48.
RECURSIVE Decimal(_)
Decimal(n) ==
    IF n < 10 THEN <<48 + n>> ELSE Decimal(n \div 10) \o <<48 + (n % 10)>>

\* Mutant: the fields are written without leading zeros.
DigitsUnpadded(n, width) == Decimal(n)

\* A field of toISOString: `width` decimal digits, zero-padded.
RECURSIVE Digits(_, _)
Digits(n, width) ==
    IF width = 0 THEN <<>>
    ELSE Digits(n \div 10, width - 1) \o <<48 + (n % 10)>>

\* Date.prototype.toISOString for the years 0000 to 9999:
\* YYYY-MM-DDTHH:mm:ss.sssZ ("-" 45, "T" 84, ":" 58, "." 46, "Z" 90).
toISOString(d) ==
    Digits(d.year, 4) \o <<45>> \o Digits(d.month, 2) \o <<45>>
        \o Digits(d.day, 2) \o <<84>> \o Digits(d.hours, 2) \o <<58>>
        \o Digits(d.minutes, 2) \o <<58>> \o Digits(d.seconds, 2) \o <<46>>
        \o Digits(d.ms, 3) \o <<90>>

\* `.replace(/[:.]/g, '-')`
ReplaceColonsAndDots(chars) ==
    [i \in 1..Len(chars) |-> IF chars[i] \in {58, 46} THEN 45 ELSE chars[i]]

\* The part of the backup's name after `${filePath}.backup.`.
backupTimestamp(d) == ReplaceColonsAndDots(toISOString(d))

\* The order of Array.prototype.sort without a comparator: by code units,
\* a proper prefix first.
LexLess(a, b) ==
    \/ /\ Len(a) < Len(b)
       /\ \A j \in 1..Len(a) : a[j] = b[j]
    \/ \E i \in 1..Min(Len(a), Len(b)) :
          /\ \A j \in 1..(i - 1) : a[j] = b[j]
          /\ a[i] < b[i]

\* findLatestBackup on the names of one data file (they share the prefix
\* the filter asks for): `.sort().reverse()`, then the first or null.
latestBackupName(names) ==
    IF names = {}
    THEN [called |-> TRUE, found |-> FALSE, name |-> <<>>, after |-> 0]
    ELSE [called |-> TRUE, found |-> TRUE,
          name |-> CHOOSE n \in names :
                       \A m \in names : m = n \/ LexLess(m, n),
          after |-> 0]

NoLatest == [called |-> FALSE, found |-> FALSE, name |-> <<>>, after |-> 0]

BackupInit ==
    /\ ManagerAtRest
    /\ StoreAtRest
    /\ UpsertAtRest
    /\ RetryAtRest
    /\ SessionAtRest
    /\ ConfigAtRest
    /\ PairAtRest
    /\ backupDir = {}
    /\ created = <<>>
    /\ latest = NoLatest

\* createBackup at the instant `now`; the clock does not run backwards.
\* copyFile replaces a backup of the same name.
CreateBackupCall(now) ==
    /\ Len(created) < MaxBackups
    /\ created # <<>> => ~Before(now, created[Len(created)])
    /\ backupDir' = backupDir \cup {backupTimestamp(now)}
    /\ created' = Append(created, now)
    /\ UNCHANGED latest
    /\ UNCHANGED <<mgrVars, storeVars, upsertVars, retryVars, sessionFile,
                   encrypted, decrypted, auth, configVars, pairVars>>

\* findLatestBackup is called by loadDataFile.
FindLatestBackupCall ==
    /\ latest' = [latestBackupName(backupDir) EXCEPT !.after = Len(created)]
    /\ UNCHANGED <<backupDir, created>>
    /\ UNCHANGED <<mgrVars, storeVars, upsertVars, retryVars, sessionFile,
                   encrypted, decrypted, auth, configVars, pairVars>>

BackupNext ==
    \/ \E now \in Instants : CreateBackupCall(now)
    \/ FindLatestBackupCall

BackupSpec == BackupInit /\ [][BackupNext]_vars

\* ----------------------------------- two jobs and one download directory
NameLimit == 255         \* `.substring(0, 255)`

\* Characters sanitizeFilename replaces: < > : " / \ | ? * and the control
\* characters; by code unit.
InvalidChars == {60, 62, 58, 34, 47, 92, 124, 63, 42} \cup (0..31)

\* Characters `\s` matches that are left after the first replacement.
Whitespace == {32, 160}

\* `.replace(/[<>:"/\\|?*\x00-\x1f]/g, '_')`
ReplaceInvalid(s) ==
    [i \in 1..Len(s) |-> IF s[i] \in InvalidChars THEN 95 ELSE s[i]]

\* `.replace(/^\.+/, '')`
RECURSIVE DropLeadingDots(_)
DropLeadingDots(s) ==
    IF s # <<>> /\ Head(s) = 46 THEN DropLeadingDots(Tail(s)) ELSE s

\* `.replace(/\s+/g, '_')`
RECURSIVE CollapseWhitespace(_)
CollapseWhitespace(s) ==
    IF s = <<>> THEN <<>>
    ELSE IF Head(s) \in Whitespace
    THEN IF Len(s) > 1 /\ s[2] \in Whitespace
         THEN CollapseWhitespace(Tail(s))
         ELSE <<95>> \o CollapseWhitespace(Tail(s))
    ELSE <<Head(s)>> \o CollapseWhitespace(Tail(s))

\* Mutant: the name is used as it is.
sanitizeFilenameVerbatim(filename) == filename

sanitizeFilename(filename) ==
    LET s == CollapseWhitespace(DropLeadingDots(ReplaceInvalid(filename)))
    IN  SubSeq(s, 1, Min(Len(s), NameLimit))

\* config.download.outputDir, here "d".
BaseDir == <<100>>

\* path.join of a directory and a name that is not empty ("/" is 47).
PathJoin(dir, name) == dir \o <<47>> \o name

\* outputDir of a file.
OutputDir(file, organizeByGroup) ==
    IF organizeByGroup
    THEN PathJoin(BaseDir, sanitizeFilename(file.groupHandle))
    ELSE BaseDir

\* outputPath of a file.
OutputPathOf(file, organizeByGroup) ==
    PathJoin(OutputDir(file, organizeByGroup), sanitizeFilename(file.name))

\* tempPath: `${outputPath}.part`
TempPathOf(outputPath) == outputPath \o <<46, 112, 97, 114, 116>>

Pair == {1, 2}

\* Names of the second file: "a_b", "a  b", ".a:b" and "c"; the first file
\* is named "a b".
FirstName == <<97, 32, 98>>
PairNames == {<<97, 95, 98>>, <<97, 32, 32, 98>>, <<46, 97, 58, 98>>, <<99>>}

\* Group handles: "g" and "h".
FirstHandle == <<103>>
PairHandles == {<<103>>, <<104>>}

\* A file of the download directory: the job whose buffer was written to it
\* (0: a file that was there before the run) and its size.
FileOf(job, size) == [job |-> job, size |-> size]

NoSuchFile == FileOf(0, NoBytes)

\* A pending file entry, before its execution is started.
PairEntry(name, groupHandle, size) ==
    [name |-> name, groupHandle |-> groupHandle, size |-> size,
     downloadStatus |-> "pending", downloadPath |-> <<>>,
     pc |-> "queued", attempt |-> 0, transfers |-> 0, skipped |-> FALSE]

PairOptions ==
    [overwriteExisting : BOOLEAN, organizeByGroup : BOOLEAN,
     concurrency : {0, 1}, retryAttempts : {1, 2}]

outputPath(j) == OutputPathOf(jobs[j], options.organizeByGroup)

tempPath(j) == TempPathOf(outputPath(j))

\* Two pending candidates, the download directory (a file may be at the
\* output path of the first job already) and the configuration, before
\* DownloadManager.start is called.
PairInit ==
    /\ ManagerAtRest
    /\ StoreAtRest
    /\ UpsertAtRest
    /\ RetryAtRest
    /\ SessionAtRest
    /\ ConfigAtRest
    /\ BackupsAtRest
    /\ options \in PairOptions
    /\ \E name \in PairNames, handle \in PairHandles, size \in Sizes :
          jobs = [j \in Pair |->
                     IF j = 1 THEN PairEntry(FirstName, FirstHandle, DeclaredSize)
                     ELSE PairEntry(name, handle, size)]
    /\ \E there \in {NoBytes, ExistingSize} :
          tree = [p \in {outputPath(j) : j \in Pair}
                           \cup {tempPath(j) : j \in Pair} |->
                     IF p = outputPath(1) THEN FileOf(0, there)
                     ELSE NoSuchFile]
    /\ runStats = ZeroStats

\* The synchronous start of downloadSingleFile: in-progress, and the first
\* saveDataFile is called.
Started(file) ==
    [file EXCEPT !.downloadStatus = "in-progress", !.pc = "persistStart"]

\* start selects both candidates and downloadWithConcurrency makes its
\* first pass.
StartPair ==
    /\ \A j \in Pair : jobs[j].pc = "queued"
    /\ runStats.total = 0
    /\ runStats' = [runStats EXCEPT !.total = 2,
                                    !.totalSize = jobs[1].size + jobs[2].size]
    /\ jobs' = [j \in Pair |->
                   IF j <= EffectiveConcurrency(options.concurrency)
                   THEN Started(jobs[j]) ELSE jobs[j]]
    /\ UNCHANGED <<tree, options>>
    /\ UNCHANGED <<mgrVars, storeVars, upsertVars, retryVars, sessionFile,
                   encrypted, decrypted, auth, configVars, backupVars>>

\* A saveDataFile of downloadSingleFile returns.  After the first one
\* downloadFileWithRetry calls downloadFile, which awaits ensureDir; after
\* the second one the execution ends and the loop starts the job still
\* queued.
PairPersistDone(j) ==
    /\ jobs[j].pc \in {"persistStart", "persistOutcome"}
    /\ jobs' = IF jobs[j].pc = "persistStart"
               THEN [jobs EXCEPT ![j].pc = "ensureDir", ![j].attempt = 1]
               ELSE [k \in Pair |->
                        IF k = j THEN [jobs[k] EXCEPT !.pc = "ended"]
                        ELSE IF jobs[k].pc = "queued" THEN Started(jobs[k])
                        ELSE jobs[k]]
    /\ UNCHANGED <<tree, options, runStats>>
    /\ UNCHANGED <<mgrVars, storeVars, upsertVars, retryVars, sessionFile,
                   encrypted, decrypted, auth, configVars, backupVars>>

\* Mutant: the completed status is recorded without result.downloadPath.
RecordSuccessWithoutPath(js, j, path, skipped) ==
    [js EXCEPT ![j].downloadStatus = "completed", ![j].skipped = skipped,
               ![j].pc = "persistOutcome"]

\* downloadFile returns success, downloadFileWithRetry returns it and
\* downloadSingleFile records it and calls the second saveDataFile.
RecordSuccess(js, j, path, skipped) ==
    [js EXCEPT ![j].downloadStatus = "completed", ![j].downloadPath = path,
               ![j].skipped = skipped, ![j].pc = "persistOutcome"]

\* Mutant: a success is counted as skipped.
CountSuccessAsSkipped(st, size) == [st EXCEPT !.skipped = @ + 1]

\* `this.stats.completed++; this.stats.downloadedSize += file.size`
CountSuccess(st, size) ==
    [st EXCEPT !.completed = @ + 1, !.downloadedSize = @ + size]

\* `await ensureDir(outputDir)` is done: fs.access is called, or with
\* overwriteExisting the client.
PairEnsureDirDone(j) ==
    /\ jobs[j].pc = "ensureDir"
    /\ jobs' = [jobs EXCEPT ![j].pc = IF options.overwriteExisting
                                      THEN "remote" ELSE "access"]
    /\ UNCHANGED <<tree, options, runStats>>
    /\ UNCHANGED <<mgrVars, storeVars, upsertVars, retryVars, sessionFile,
                   encrypted, decrypted, auth, configVars, backupVars>>

\* fs.access(outputPath) settles: a file is there and the job is recorded
\* completed, or none is and the client is called.
PairAccessDone(j) ==
    /\ jobs[j].pc = "access"
    /\ IF tree[outputPath(j)] # NoSuchFile
       THEN /\ jobs' = RecordSuccess(jobs, j, outputPath(j), TRUE)
            /\ runStats' = CountSuccess(runStats, jobs[j].size)
       ELSE /\ jobs' = [jobs EXCEPT ![j].pc = "remote"]
            /\ UNCHANGED runStats
    /\ UNCHANGED <<tree, options>>
    /\ UNCHANGED <<mgrVars, storeVars, upsertVars, retryVars, sessionFile,
                   encrypted, decrypted, auth, configVars, backupVars>>

\* getEntity, getMessages and downloadMedia have returned the document of
\* the job (none of them touches the directory); fs.writeFile is called.
\* Or one of them failed and the cleanup unlinks tempPath.
PairRemoteDone(j, ok) ==
    /\ jobs[j].pc = "remote"
    /\ jobs' = IF ok
               THEN [jobs EXCEPT ![j].pc = "writeFile", ![j].transfers = @ + 1]
               ELSE [jobs EXCEPT ![j].pc = "cleanup"]
    /\ UNCHANGED <<tree, options, runStats>>
    /\ UNCHANGED <<mgrVars, storeVars, upsertVars, retryVars, sessionFile,
                   encrypted, decrypted, auth, configVars, backupVars>>

\* fs.writeFile(tempPath, buffer) is done; fs.stat is called.
PairWriteFileDone(j) ==
    /\ jobs[j].pc = "writeFile"
    /\ tree' = [tree EXCEPT ![tempPath(j)] = FileOf(j, jobs[j].size)]
    /\ jobs' = [jobs EXCEPT ![j].pc = "stat"]
    /\ UNCHANGED <<options, runStats>>
    /\ UNCHANGED <<mgrVars, storeVars, upsertVars, retryVars, sessionFile,
                   encrypted, decrypted, auth, configVars, backupVars>>

\* fs.stat(tempPath) settles: it rejects when no file is there, the size
\* is compared with file.size, and fs.rename is called.
PairStatDone(j) ==
    /\ jobs[j].pc = "stat"
    /\ jobs' = [jobs EXCEPT ![j].pc =
                   IF tree[tempPath(j)] # NoSuchFile
                      /\ SizeVerified(tree[tempPath(j)].size, jobs[j].size)
                   THEN "rename" ELSE "cleanup"]
    /\ UNCHANGED <<tree, options, runStats>>
    /\ UNCHANGED <<mgrVars, storeVars, upsertVars, retryVars, sessionFile,
                   encrypted, decrypted, auth, configVars, backupVars>>

\* fs.rename(tempPath, outputPath) settles: the file at tempPath is now at
\* outputPath and the job is recorded completed, or no file is at tempPath.
PairRenameDone(j) ==
    /\ jobs[j].pc = "rename"
    /\ IF tree[tempPath(j)] # NoSuchFile
       THEN /\ tree' = [tree EXCEPT ![outputPath(j)] = tree[tempPath(j)],
                                    ![tempPath(j)] = NoSuchFile]
            /\ jobs' = RecordSuccess(jobs, j, outputPath(j), FALSE)
            /\ runStats' = CountSuccess(runStats, jobs[j].size)
       ELSE /\ jobs' = [jobs EXCEPT ![j].pc = "cleanup"]
            /\ UNCHANGED <<tree, runStats>>
    /\ UNCHANGED options
    /\ UNCHANGED <<mgrVars, storeVars, upsertVars, retryVars, sessionFile,
                   encrypted, decrypted, auth, configVars, backupVars>>

\* The cleanup `fs.unlink(tempPath)` settles and the attempt has failed:
\* a delay and another attempt, or the job is recorded failed.
PairCleanupDone(j) ==
    /\ jobs[j].pc = "cleanup"
    /\ tree' = [tree EXCEPT ![tempPath(j)] = NoSuchFile]
    /\ IF jobs[j].attempt < options.retryAttempts
       THEN /\ jobs' = [jobs EXCEPT ![j].pc = "delay"]
            /\ UNCHANGED runStats
       ELSE /\ jobs' = [jobs EXCEPT ![j].downloadStatus = "failed",
                                    ![j].pc = "persistOutcome"]
            /\ runStats' = [runStats EXCEPT !.failed = @ + 1]
    /\ UNCHANGED options
    /\ UNCHANGED <<mgrVars, storeVars, upsertVars, retryVars, sessionFile,
                   encrypted, decrypted, auth, configVars, backupVars>>

\* The retry delay is over: the next downloadFile call awaits ensureDir.
PairDelayDone(j) ==
    /\ jobs[j].pc = "delay"
    /\ jobs' = [jobs EXCEPT ![j].pc = "ensureDir", ![j].attempt = @ + 1]
    /\ UNCHANGED <<tree, options, runStats>>
    /\ UNCHANGED <<mgrVars, storeVars, upsertVars, retryVars, sessionFile,
                   encrypted, decrypted, auth, configVars, backupVars>>

PairNext ==
    \/ StartPair
    \/ \E j \in Pair : PairPersistDone(j)
    \/ \E j \in Pair : PairEnsureDirDone(j)
    \/ \E j \in Pair : PairAccessDone(j)
    \/ \E j \in Pair, ok \in BOOLEAN : PairRemoteDone(j, ok)
    \/ \E j \in Pair : PairWriteFileDone(j)
    \/ \E j \in Pair : PairStatDone(j)
    \/ \E j \in Pair : PairRenameDone(j)
    \/ \E j \in Pair : PairCleanupDone(j)
    \/ \E j \in Pair : PairDelayDone(j)

PairSpec == PairInit /\ [][PairNext]_vars

\* ------------------------------------------------- one discoverFiles call
\* discoverFiles has not been called; `before` is, as history, the data
\* file at the call.
NoDiscovery ==
    [called |-> FALSE, update |-> FALSE, groupsOnly |-> FALSE,
     threw |-> FALSE, before |-> Missing]

\* The data files an earlier discovery and earlier download runs can have
\* left at dataFilePath: none, one that does not parse, or a snapshot.
PriorDataFiles ==
    {Missing, Unparsable}
    \cup {Json(updateStatistics(
                [groups |-> g, files |-> DataFileWith(a, b, c, n),
                 statistics |-> ZeroStatistics])) :
              g \in {<<>>, <<NewGroup(1, "title")>>},
              n \in 0..NumFiles, a \in 0..1, b \in 0..1, c \in 0..1}

\* What scanGroups and the group filters can give: no group or one.
FoundGroups ==
    {<<>>} \cup {<<NewGroup(g, title)>> : g \in {1, 2}, title \in GroupTitles}

\* What the file scans and the file filters can give: the files lo..hi
\* (none when hi < lo), each with the declared size of this scan.
FoundFiles(lo, hi, size) ==
    [i \in 1..(IF hi < lo THEN 0 ELSE hi - lo + 1) |->
        NewFileEntry(lo + i - 1, size)]

RECURSIVE UpsertGroups(_, _)
UpsertGroups(groups, found) ==
    IF found = <<>> THEN groups
    ELSE UpsertGroups(upsertGroup(groups, Head(found)), Tail(found))

\* Mutant: discoverFiles keeps what updateStatistics returns.
UpsertedAndCounted(data, groups, files) ==
    updateStatistics([data EXCEPT !.groups = UpsertGroups(@, groups),
                                  !.files = UpsertAll(@, files)])

\* The two upsert loops of discoverFiles.
Upserted(data, groups, files) ==
    [data EXCEPT !.groups = UpsertGroups(@, groups),
                 !.files = UpsertAll(@, files)]

\* Mutant: every save of discoverFiles passes `update`.
createBackupFirstAsUpdate(update, groupsOnly) == update

\* The third argument of the saveDataFile call discoverFiles makes: none
\* (the default, true) with groupsOnly, `update` otherwise.
createBackupFirst(update, groupsOnly) ==
    IF groupsOnly THEN TRUE ELSE update

DiscoverInit ==
    /\ ManagerAtRest
    /\ UpsertAtRest
    /\ RetryAtRest
    /\ SessionAtRest
    /\ ConfigAtRest
    /\ BackupsAtRest
    /\ jobs = NotRun
    /\ tree = NotRun
    /\ runStats = NotRun
    /\ options = NoDiscovery
    /\ clock = 0
    /\ primary \in PriorDataFiles
    /\ backups = NoFile
    /\ temps = NoFile
    /\ snapshot = createDataFile
    /\ saves = [e \in {FinalSaver} |-> NoSave]
    /\ loadResult = NoLoad

\* discoverFiles up to the first await of its saveDataFile call: the data
\* file is loaded or created, the groups and (without groupsOnly) the files
\* found are upserted, and saveDataFile is called.  With createBackupFirst
\* it waits for fileExists; without, it runs on to the writeFile of
\* atomicWrite.  When loadDataFile throws, discoverFiles throws.
DiscoverFilesCall(update, groupsOnly, groups, files, now) ==
    /\ ~options.called
    /\ LET r == IF update THEN loadDataFile(primary, backups)
                ELSE [outcome |-> "returned", source |-> "created",
                      data |-> createDataFile]
           data == Upserted(r.data, groups,
                            IF groupsOnly THEN <<>> ELSE files)
       IN  /\ options' = [called |-> TRUE, update |-> update,
                          groupsOnly |-> groupsOnly,
                          threw |-> (r.outcome = "raised"),
                          before |-> primary]
           /\ loadResult' = IF update
                            THEN [outcome |-> r.outcome, source |-> r.source]
                            ELSE loadResult
           /\ IF r.outcome = "raised"
              THEN /\ now = clock
                   /\ UNCHANGED <<clock, snapshot, saves>>
              ELSE /\ snapshot' = data
                   /\ IF createBackupFirst(update, groupsOnly)
                      THEN /\ now = clock
                           /\ UNCHANGED clock
                           /\ saves' = [saves EXCEPT ![FinalSaver] =
                                            CallSave(@, 3)]
                      ELSE /\ ReadClock(now)
                           /\ saves' = [saves EXCEPT ![FinalSaver] =
                                            BeginAtomicWrite(CallSave(@, 3),
                                                             data, now)]
    /\ UNCHANGED <<primary, backups, temps>>
    /\ UNCHANGED <<mgrVars, upsertVars, retryVars, sessionFile, encrypted,
                   decrypted, auth, configVars, backupVars, jobs, tree,
                   runStats>>

DiscoverNext ==
    \/ \E update \in BOOLEAN, groupsOnly \in BOOLEAN, groups \in FoundGroups,
          lo \in FileIds, hi \in FileIds, size \in Sizes, now \in Times :
          DiscoverFilesCall(update, groupsOnly, groups,
                            FoundFiles(lo, hi, size), now)
    \/ \E now \in Times : AccessDone(FinalSaver, now)
    \/ \E now \in Times : CopyFileDone(FinalSaver, now)
    \/ OpenDone(FinalSaver)
    \/ WriteDone(FinalSaver)
    \/ WriteFails(FinalSaver)
    \/ RenameDone(FinalSaver)

DiscoverSpec == DiscoverInit /\ [][DiscoverNext]_vars

\* ------------------------------------------------------------ properties

Running == mgr \in {"waiting", "finalPersist"}
Ended == mgr \in {"returned", "rejected"}

\* The bound C of the run: the configured concurrency, 3 when not configured.
Bound == IF concurrency >= 1 THEN concurrency ELSE 3

InProgressCount(files) ==
    Cardinality({i \in 1..Len(files) : files[i].downloadStatus = "in-progress"})

EntryOf(files, fileId) ==
    files[CHOOSE i \in 1..Len(files) : files[i].id = fileId]

Known(files, fileId) == \E i \in 1..Len(files) : files[i].id = fileId

Final(f) == f.downloadStatus \in {"completed", "failed"}

CandidatesFinal ==
    \A i \in 1..Len(filesToDownload) :
        /\ Known(dataFile, filesToDownload[i])
        /\ Final(EntryOf(dataFile, filesToDownload[i]))

\* C1: during a run the number of executions in flight never exceeds the
\* bound C, and when no job was in-progress at load neither does the number
\* of in-progress jobs, in the in-memory snapshot and in the data file.
C1_ConcurrencyBound ==
    (Running \/ Ended) =>
        /\ Len(active) <= Bound
        /\ InProgressCount(loaded) = 0 =>
              /\ InProgressCount(dataFile) <= Bound
              /\ InProgressCount(disk) <= Bound

\* The bound is reached while jobs are still queued.
C1_Witness ==
    /\ mgr = "waiting"
    /\ queue # <<>>
    /\ Len(active) = Bound
    /\ InProgressCount(loaded) = 0
    /\ InProgressCount(dataFile) = Bound
    /\ InProgressCount(disk) = Bound

\* C2: when every transfer and every persist returns, a started run ends,
\* and at its end every candidate is completed or failed.
C2_RunTerminates == (mgr = "waiting") ~> (Ended /\ CandidatesFinal)

\* A run over NumFiles candidates has returned with both outcomes present.
C2_Witness ==
    /\ mgr = "returned"
    /\ Len(filesToDownload) = NumFiles
    /\ CandidatesFinal
    /\ \E i \in 1..Len(dataFile) : dataFile[i].downloadStatus = "completed"
    /\ \E i \in 1..Len(dataFile) : dataFile[i].downloadStatus = "failed"

\* C3: when start returns, total is the number of candidates and each was
\* counted once: completed + failed = total.
C3_EachCandidateCountedOnce ==
    mgr = "returned" =>
        /\ stats.total = Len(filesToDownload)
        /\ stats.completed + stats.failed = stats.total

\* C4: no job has two executions in flight, every candidate is started at
\* most once (exactly once by the end of the run), and a job that was
\* in-progress at load is never started.
C4_AtMostOneExecutionPerJob ==
    (Running \/ Ended) =>
        /\ \A i, j \in 1..Len(active) :
               i # j => active[i].file # active[j].file
        /\ \A i, j \in 1..Len(dispatched) :
               i # j => dispatched[i] # dispatched[j]
        /\ \A i \in 1..Len(dispatched) :
               /\ dispatched[i] \in Range(filesToDownload)
               /\ EntryOf(loaded, dispatched[i]).downloadStatus # "in-progress"
        /\ \A i \in 1..Len(active) : active[i].file \in Range(dispatched)
        /\ Ended => Range(dispatched) = Range(filesToDownload)

\* A run that started NumFiles executions, more than its bound, has returned.
C4_Witness ==
    /\ mgr = "returned"
    /\ Len(dispatched) = NumFiles
    /\ Bound < NumFiles

\* The status changes the claim allows.
AllowedChange(old, new) ==
    \/ old \in {"pending", "failed"} /\ new = "in-progress"
    \/ old = "in-progress" /\ new \in {"completed", "failed"}

\* C5: every change of a job's status in the snapshot of a run follows
\* pending|failed -> in-progress -> completed|failed; a completed job stays
\* completed when a later run loads it and when discovery upserts it.
C5_StatusTransitionsMonotonic ==
    /\ [][/\ (mgr # "idle" /\ mgr' # "crashed") =>
                \A i \in 1..Len(dataFile) :
                    dataFile'[i].downloadStatus # dataFile[i].downloadStatus =>
                        AllowedChange(dataFile[i].downloadStatus,
                                      dataFile'[i].downloadStatus)
          /\ (mgr = "idle" /\ mgr' # "idle") =>
                \A i \in 1..Len(disk) :
                    disk[i].downloadStatus = "completed" =>
                        dataFile'[i].downloadStatus = "completed"]_vars
    /\ [](\A n \in FileIds, size \in Sizes : \A i \in 1..Len(disk) :
             UpsertAll(disk, ScanResult(n, size))[i].downloadStatus
                 = disk[i].downloadStatus)

CompletedWellFormed(files) ==
    \A i \in 1..Len(files) :
        files[i].downloadStatus = "completed" =>
            /\ files[i].downloadPath # Absent
            /\ files[i].errorMessage = Absent

\* C6: in the in-memory snapshot and in the data file, a completed job has
\* its downloadPath set and no errorMessage.
C6_CompletedHasPathAndNoError ==
    CompletedWellFormed(dataFile) /\ CompletedWellFormed(disk)

\* C7: the candidates of a run are exactly the loaded jobs that are pending,
\* or pending or failed in resume mode, each once and in list order; loaded
\* jobs that are completed or in-progress are never candidates.
C7_CandidateSet ==
    (Running \/ Ended) =>
        /\ \A i \in 1..Len(loaded) :
              loaded[i].id \in Range(filesToDownload) <=>
                  \/ loaded[i].downloadStatus = "pending"
                  \/ resumeExisting /\ loaded[i].downloadStatus = "failed"
        /\ \A i \in 1..Len(filesToDownload) :
              Known(loaded, filesToDownload[i])
        /\ \A i, j \in 1..Len(filesToDownload) :
              i < j => filesToDownload[i] < filesToDownload[j]

\* A default-mode run that loaded a completed, a failed and a pending job.
C7_Witness ==
    /\ Running
    /\ ~resumeExisting
    /\ \E i \in 1..Len(loaded) : loaded[i].downloadStatus = "completed"
    /\ \E i \in 1..Len(loaded) : loaded[i].downloadStatus = "failed"
    /\ \E i \in 1..Len(loaded) : loaded[i].downloadStatus = "pending"
    /\ Len(filesToDownload) = 1

\* C8: when the handling of a job ends, its last status transition has been
\* written by a persist of that handling.
C8_EveryTransitionPersisted == unpersisted = {}

\* C9: a step that counts a failure marks exactly one job in flight failed,
\* with an errorMessage, changes no other job and neither stops the run nor
\* touches the queue; and at the end of the run every candidate is completed
\* or failed.
C9_FailureIsolated ==
    /\ [][stats'.failed > stats.failed =>
            /\ mgr' = mgr
            /\ queue' = queue
            /\ \E k \in 1..Len(active) :
                 LET idx == FindIndex(dataFile, active[k].file)
                 IN  /\ idx > 0
                     /\ dataFile'[idx].downloadStatus = "failed"
                     /\ dataFile'[idx].errorMessage # Absent
                     /\ \A i \in 1..Len(dataFile) :
                            i # idx => dataFile'[i] = dataFile[i]]_vars
    /\ [](Ended => CandidatesFinal)

\* With one slot, a job failed and a job dispatched after it completed.
C9_Witness ==
    /\ mgr = "returned"
    /\ Bound = 1
    /\ \E i, j \in 1..Len(dispatched) :
          /\ i < j
          /\ EntryOf(dataFile, dispatched[i]).downloadStatus = "failed"
          /\ EntryOf(dataFile, dispatched[i]).errorMessage # Absent
          /\ EntryOf(dataFile, dispatched[j]).downloadStatus = "completed"

\* C10: a save that throws makes start reject.
C10_PersistFailureIsFatal == persistFailed => mgr = "rejected"

\* A saveDataFile call is in flight: called and not yet settled.
InFlight(e) ==
    saves[e].pc \in {"fileExists", "copyFile", "open", "write", "rename"}

\* The call is inside atomicWrite, working on its temp file.
InAtomicWrite(e) == saves[e].pc \in {"open", "write", "rename"}

\* C11: two saveDataFile calls of a run are never in flight together, and
\* two calls never work on the same temp file.
C11_SavesNeverInterleave ==
    \A e1, e2 \in DOMAIN saves :
        e1 # e2 =>
            /\ ~(InFlight(e1) /\ InFlight(e2))
            /\ ~(/\ InAtomicWrite(e1)
                 /\ InAtomicWrite(e2)
                 /\ saves[e1].temp = saves[e2].temp)

\* C12: the data file path always holds a complete snapshot, its content
\* changes only by the rename of a completely written temp file, and a save
\* that fails leaves the content as it was and its temp file removed.
C12_PathChangesOnlyByRename ==
    /\ [](primary.kind = "json")
    /\ [][/\ primary' # primary =>
               \E e \in DOMAIN saves :
                  /\ saves[e].pc = "rename"
                  /\ saves'[e].pc # "rename"
                  /\ temps[saves[e].temp].kind = "json"
                  /\ primary' = temps[saves[e].temp]
          /\ \A e \in DOMAIN saves :
                (saves[e].outcome # "threw" /\ saves'[e].outcome = "threw") =>
                    /\ primary' = primary
                    /\ temps'[saves[e].temp].kind = "absent"]_vars

\* A loadDataFile call is made in this step.
LoadCalled == loadResult.outcome = "none" /\ loadResult'.outcome # "none"

SomeValidBackup == \E t \in Times : backups[t].kind = "json"

NoBackup == \A t \in Times : backups[t].kind = "absent"

\* C13: when the data file does not parse and a valid backup of it exists,
\* loadDataFile returns the content of a backup and does not throw.
C13_RecoversFromValidBackup ==
    [][(LoadCalled /\ primary.kind = "unparsable" /\ SomeValidBackup) =>
          /\ loadResult'.outcome = "returned"
          /\ \E t \in Times : /\ backups[t].kind = "json"
                              /\ snapshot' = backups[t].data]_vars

\* C14: with no data file loadDataFile returns createDataFile(), throws
\* nothing and writes nothing; with a data file that does not parse and no
\* backup it throws and returns no snapshot.
C14_LoadAbsentOrUnrecoverable ==
    [][LoadCalled =>
          /\ primary.kind = "absent" =>
                /\ loadResult'.outcome = "returned"
                /\ snapshot' = createDataFile
                /\ snapshot'.statistics = ZeroStatistics
                /\ UNCHANGED <<primary, backups, temps>>
          /\ (primary.kind = "unparsable" /\ NoBackup) =>
                /\ loadResult'.outcome = "raised"
                /\ UNCHANGED snapshot]_vars

\* The data file does not parse, there is no backup, and the load threw. 
C14_Witness ==
    /\ primary.kind = "unparsable"
    /\ NoBackup
    /\ loadResult.outcome = "raised"

\* C15: what loadDataFile returns from a file saveDataFile wrote carries the
\* statistics recomputed from its own files and groups.
C15_LoadedStatisticsRecomputed ==
    [][(LoadCalled /\ loadResult'.outcome = "returned") =>
          snapshot'.statistics = updateStatistics(snapshot').statistics]_vars

\* A snapshot with a completed job was loaded from the data file: the
\* snapshot it was saved from had been loaded without a completed job.
C15_Witness ==
    /\ loadResult.outcome = "returned"
    /\ loadResult.source = "primary"
    /\ snapshot.statistics.completedFiles = 1
    /\ snapshot.statistics.totalDownloadedSize > 0

\* The four fields the scheduler owns are the same in both entries.
SameDownloadState(f, g) ==
    /\ f.downloadStatus = g.downloadStatus
    /\ f.downloadPath = g.downloadPath
    /\ f.downloadedAt = g.downloadedAt
    /\ f.errorMessage = g.errorMessage

\* C16: upsertFile on an id of the snapshot keeps the entry's downloadStatus,
\* downloadPath, downloadedAt and errorMessage and takes the other fields
\* from the incoming descriptor; on a new id it appends the descriptor as it
\* is; every other entry stays as it was.
C16_UpsertMergesDescriptor ==
    [][lastCall'.op = "upsertFile" =>
          LET file == lastCall'.file
              before == snapshot.files
              after == snapshot'.files
              idx == FindIndex(before, file.id)
          IN  IF idx > 0
              THEN /\ Len(after) = Len(before)
                   /\ SameDownloadState(after[idx], before[idx])
                   /\ after[idx].id = file.id
                   /\ after[idx].size = file.size
                   /\ \A j \in 1..Len(before) : j # idx => after[j] = before[j]
              ELSE after = Append(before, file)]_vars

\* The last call upserted a pending descriptor of another size on a job
\* that is completed: the entry is still completed, with the new size.
C16_Witness ==
    /\ lastCall.op = "upsertFile"
    /\ lastCall.file.size = 120
    /\ \E i \in 1..Len(snapshot.files) :
          /\ snapshot.files[i].id = lastCall.file.id
          /\ snapshot.files[i].size = 120
          /\ snapshot.files[i].downloadStatus = "completed"
          /\ snapshot.files[i].downloadPath = OutputPath
    /\ \E i \in 1..Len(snapshot.files) : snapshot.files[i].size = 100

\* C17: no two entries of the snapshot have the same id, after any upserts
\* of files and groups and any status updates on an empty snapshot.
C17_FileIdsUnique ==
    \A i, j \in 1..Len(snapshot.files) :
        snapshot.files[i].id = snapshot.files[j].id => i = j

\* Discovery supplied again the id of a job that had failed meanwhile, and
\* the snapshot holds every id once.
C17_Witness ==
    /\ lastCall.op = "upsertFile"
    /\ Len(snapshot.files) = MaxIds
    /\ snapshot.groups # <<>>
    /\ \E i \in 1..Len(snapshot.files) :
          /\ snapshot.files[i].id = lastCall.file.id
          /\ snapshot.files[i].downloadStatus = "failed"

\* C18: when attempt k of a transfer succeeds after k-1 failed attempts,
\* downloadFileWithRetry returns that success at once, with k-1 delays made
\* and k within maxAttempts, and no .part file is left.
C18_SuccessEndsRetry ==
    attemptResult.success =>
        /\ retry.pc = "returned"
        /\ result = attemptResult
        /\ retry.attempt <= retry.maxAttempts
        /\ retry.delays = retry.attempt - 1
        /\ ~attemptResult.skipped =>
              /\ partFile = NoBytes
              /\ finalFile = DeclaredSize

\* The second attempt transferred the file after the first had failed, with
\* a .part file of a killed run there at the start or not.
C18_Witness ==
    /\ result.success
    /\ ~result.skipped
    /\ retry.attempt = 2
    /\ retry.maxAttempts = DefaultRetryAttempts
    /\ partFile = NoBytes

\* C19: when every attempt fails, downloadFileWithRetry makes maxAttempts
\* attempts and maxAttempts - 1 delays, none after the last attempt, and
\* returns (it does not throw) a failure whose message states maxAttempts.
C19_AllAttemptsFail ==
    /\ retry.attempt <= retry.maxAttempts
    /\ retry.delays <= retry.attempt
    /\ (retry.pc = "returned" /\ ~attemptResult.success) =>
          /\ retry.attempt = retry.maxAttempts
          /\ retry.delays = retry.maxAttempts - 1
          /\ result.returned
          /\ ~result.success
          /\ result.error = FailedAfterMessage(retry.maxAttempts)

\* Three attempts (the default) failed, the last on a size mismatch; two
\* delays were made.
C19_Witness ==
    /\ retry.pc = "returned"
    /\ ~result.success
    /\ retry.maxAttempts = DefaultRetryAttempts
    /\ retry.attempt = DefaultRetryAttempts
    /\ retry.delays = 2
    /\ attemptResult.code = "SIZE_MISMATCH"

C21_ExistingFileSkipped ==
    [][/\ (retry.pc = "access" /\ finalFile # NoBytes) =>
            /\ retry'.pc = "returned"
            /\ retry'.remote = 0
            /\ attemptResult' = Success(TRUE)
            /\ result' = Success(TRUE)
            /\ partFile' = partFile
            /\ finalFile' = finalFile
       /\ (/\ previous'.returned /\ previous'.skipped
           /\ ~retry'.overwriteExisting
           /\ result'.returned) => result' = previous']_vars

C21_Witness ==
    /\ retry.pc = "returned"
    /\ retry.remote = 0
    /\ ~retry.overwriteExisting
    /\ result = Success(TRUE)
    /\ previous = Success(TRUE)
    /\ finalFile = ExistingSize
    /\ partFile = LeftoverSize

\* C22: whenever the transfer of a job is in flight (so also when the
\* process is killed then), the data file shows the job in-progress, and
\* the job is not among the candidates of a run that loads that file, with
\* or without resume.
C22_InterruptedJobStaysInProgress ==
    \A e \in Savers :
        saves[e].pc = "transfer" =>
            /\ primary.kind = "json"
            /\ Known(primary.data.files, e)
            /\ EntryOf(primary.data.files, e).downloadStatus = "in-progress"
            /\ \A resume \in BOOLEAN :
                  \A i \in 1..Len(getFilesToDownload(primary.data.files,
                                                     resume)) :
                      getFilesToDownload(primary.data.files, resume)[i].id # e

\* C23: a run with resume that has returned started every job the data file
\* showed as not completed (pending, failed, or in-progress from an
\* interrupted run), started no completed job, and left every discovered
\* file completed or failed.
C23_ResumeFinishesEveryFile ==
    (mgr = "returned" /\ resumeExisting) =>
        /\ \A i \in 1..Len(loaded) :
              (loaded[i].downloadStatus # "completed") <=>
                  (loaded[i].id \in Range(dispatched))
        /\ \A i \in 1..Len(dataFile) : Final(dataFile[i])

\* C24: when the transfer of a job fails, the error the manager records as
\* the job's errorMessage (the error of downloadFileWithRetry's result) is
\* not empty and is the error message of the failing downloadFile attempt.
C24_FailureMessageRecorded ==
    (result.returned /\ ~result.success) =>
        /\ result.error # NoMessage
        /\ ~attemptResult.success
        /\ result.error = attemptResult.error

C26_DecryptRejects ==
    decrypted.called =>
        /\ Len(Split(sessionFile)) # 3 => decrypted.threw
        /\ decrypted.password # encrypted.password => decrypted.threw
        /\ (/\ Len(Split(sessionFile)) = 3
            /\ sessionFile # encrypted.returned) => decrypted.threw

\* C27: when decrypting the stored session throws, authenticate rejects,
\* and the session is not replaced by an empty or a new one.
C27_SecretErrorIsFatal ==
    auth.secretError =>
        /\ auth.pc = "rejected"
        /\ ~auth.replaced

\* C28: validateConfig throws for every concurrency below 1 or above 10,
\* and a concurrency from 1 to 10 is never the reason for a throw: with
\* the other settings valid the configuration is accepted.
C28_ConcurrencyRange ==
    (validation.called /\ config.concurrency.set) =>
        LET c == config.concurrency.value
        IN  /\ (c < 1 \/ c > 10) => validation.threw
            /\ (c >= 1 /\ c <= 10) =>
                  /\ validation.code # "INVALID_CONCURRENCY"
                  /\ validation.threw =>
                        validateConfig([config EXCEPT
                                           !.concurrency = Unset]).threw

\* The upper limit 10 was accepted.
C28_Witness ==
    /\ validation.called
    /\ ~validation.threw
    /\ config.concurrency = Given(10)

\* C29: when a call of a transfer to the client (entity lookup, message
\* fetch, media download) is told to wait, the wait that follows lasts the
\* seconds the signal carries (60 when it carries none), and after the wait
\* that same call is made again.
C29_RateLimitWaitsAndRetries ==
    [][/\ (flood.call = "none" /\ flood'.call # "none") =>
             /\ retry'.pc = "delay"
             /\ retry'.waitMs = handleFloodWait(flood'.seconds)
       /\ (/\ flood.call # "none"
           /\ retry.pc = "delay"
           /\ retry'.pc # "delay") => retry'.pc = flood.call]_vars

\* C30: at the step that lets the transfer of a job begin (its in-progress
\* save returns; the first call to the client comes after it), the data
\* file holds a snapshot that shows the job in-progress.
C30_InProgressWrittenBeforeTransfer ==
    [][\A e \in Savers :
          (saves[e].pc # "transfer" /\ saves'[e].pc = "transfer") =>
              /\ primary'.kind = "json"
              /\ Known(primary'.data.files, e)
              /\ EntryOf(primary'.data.files, e).downloadStatus
                     = "in-progress"]_vars

\* C31: once the data file shows a job of the run as completed or failed, no
\* later write of the run makes the file show that job as in-progress or
\* pending.
C31_PersistOrderFollowsOutcomes ==
    [][\A e \in Savers :
          (/\ primary.kind = "json"
           /\ Known(primary.data.files, e)
           /\ Final(EntryOf(primary.data.files, e))) =>
              ~(/\ primary'.kind = "json"
                /\ Known(primary'.data.files, e)
                /\ ~Final(EntryOf(primary'.data.files, e)))]_vars

\* C32: whenever downloadWithConcurrency waits on Promise.race(active), the
\* number of executions in flight is the bound C or the queue is empty: a
\* free slot is refilled at the first execution that ends.
C32_SlotsRefilledAtOnce ==
    (mgr = "waiting" /\ ~raceSettled) =>
        (Len(active) = Bound \/ queue = <<>>)

\* The loop waits again after a refill, with an execution of the first pass
\* still in flight beside the one that took the freed slot.
C32_Witness ==
    /\ mgr = "waiting"
    /\ ~raceSettled
    /\ Bound = 2
    /\ Len(active) = 2
    /\ Len(dispatched) = 3
    /\ active[1].file = dispatched[1]
    /\ active[2].file = dispatched[3]

\* C33: the jobs started so far are the first candidates, in the order of
\* the candidates, and the candidates are in the order of the files list of
\* the loaded snapshot; so no candidate is started before one that precedes
\* it in that list.
C33_DispatchInQueueOrder ==
    (Running \/ Ended) =>
        /\ Len(dispatched) <= Len(filesToDownload)
        /\ \A i \in 1..Len(dispatched) : dispatched[i] = filesToDownload[i]
        /\ \A i, j \in 1..Len(filesToDownload) :
              i < j => FindIndex(loaded, filesToDownload[i])
                           < FindIndex(loaded, filesToDownload[j])

\* The third candidate was started while the first was still in flight and
\* after the second had already ended.
C33_Witness ==
    /\ mgr = "waiting"
    /\ Len(filesToDownload) = 3
    /\ dispatched = filesToDownload
    /\ Final(EntryOf(dataFile, dispatched[2]))
    /\ ~Final(EntryOf(dataFile, dispatched[1]))
    /\ \E k \in 1..Len(active) : active[k].file = dispatched[3]

\* What the data file records of a job.
Recorded(f) ==
    <<f.id, f.downloadStatus, f.downloadPath, f.errorMessage>>

\* C34: when start returns normally after running executions, no save is
\* in flight and the data file records for every job the status,
\* downloadPath and errorMessage of the snapshot in memory.
C34_FinalSnapshotPersisted ==
    saves[FinalSaver].outcome = "returned" =>
        /\ \A e \in DOMAIN saves : saves[e].pc = "ended"
        /\ primary.kind = "json"
        /\ Len(primary.data.files) = Len(snapshot.files)
        /\ \A i \in 1..Len(snapshot.files) :
              Recorded(primary.data.files[i]) = Recorded(snapshot.files[i])

\* start has returned after a run in which a save of one job threw and
\* another job completed; the data file shows both.
C34_Witness ==
    /\ saves[FinalSaver].outcome = "returned"
    /\ primary.kind = "json"
    /\ \E i \in 1..Len(primary.data.files) :
          /\ primary.data.files[i].downloadStatus = "failed"
          /\ primary.data.files[i].errorMessage = PersistMessage
    /\ \E i \in 1..Len(primary.data.files) :
          primary.data.files[i].downloadStatus = "completed"
    /\ \E e \in Savers : saves[e].outcome = "threw"

\* C35: the names createBackup gives sort, by code units, in the order of
\* the instants of creation, and findLatestBackup returns the name of the
\* backup created last.
C35_BackupNamesSortByTime ==
    /\ \A i, j \in 1..Len(created) :
          /\ Before(created[i], created[j]) =>
                LexLess(backupTimestamp(created[i]),
                        backupTimestamp(created[j]))
          /\ created[i] = created[j] =>
                backupTimestamp(created[i]) = backupTimestamp(created[j])
    /\ (latest.called /\ latest.after > 0) =>
          /\ latest.found
          /\ latest.name = backupTimestamp(created[latest.after])

\* Two backups whose instants differ in the number of digits of the
\* milliseconds and of the month, and the later one found as the latest.
C35_Witness ==
    /\ Len(created) = 2
    /\ created[1].ms = 100 /\ created[2].ms = 9
    /\ created[1].month = 9 /\ created[2].month = 10
    /\ latest.called
    /\ latest.after = 2
    /\ latest.name = backupTimestamp(created[2])

\* C36: a save that throws inside the handling of a job is absorbed there:
\* in that step the job becomes failed in memory with the error's message,
\* stats.failed grows by one, the execution ends without another save (the
\* data file is not written) and start goes on; start rejects only from
\* its final save.
C36_PersistFailureAbsorbed ==
    [][/\ \A f \in unpersisted' \ unpersisted :
             /\ \E k \in 1..Len(active) :
                   active[k].file = f /\ Persisting(active[k])
             /\ EntryOf(dataFile', f).downloadStatus = "failed"
             /\ EntryOf(dataFile', f).errorMessage = PersistMessage
             /\ stats'.failed = stats.failed + 1
             /\ \A k \in 1..Len(active') : active'[k].file # f
             /\ disk' = disk
             /\ mgr' = mgr
             /\ Alive'
       /\ (mgr' = "rejected" /\ mgr # "rejected") => mgr = "finalPersist"
       /\ \A f \in unpersisted :
             \A k \in 1..Len(active') : active'[k].file # f]_vars

\* A save of one job threw, the run went on, another job completed and
\* start returned.
C36_Witness ==
    /\ mgr = "returned"
    /\ persistFailed
    /\ \E f \in unpersisted :
          /\ EntryOf(dataFile, f).downloadStatus = "failed"
          /\ EntryOf(dataFile, f).errorMessage = PersistMessage
    /\ stats.completed >= 1
    /\ stats.failed >= 1

\* The two names sanitize to one name and the output directory is the same.
Colliding ==
    /\ sanitizeFilename(jobs[1].name) = sanitizeFilename(jobs[2].name)
    /\ OutputDir(jobs[1], options.organizeByGroup)
           = OutputDir(jobs[2], options.organizeByGroup)

\* C37: two candidates whose names sanitize to one name in one output
\* directory have one output path and one .part path, so the buffer one of
\* them writes is the file the other one's stat and rename work on; and
\* without overwriteExisting, the access check of one made after the other
\* was completed at that path records it completed with the same
\* downloadPath in that step, with no call to the client.
C37_SamePathNotIsolated ==
    [][Colliding =>
          /\ outputPath(1) = outputPath(2)
          /\ tempPath(1) = tempPath(2)
          /\ \A j, k \in Pair :
                /\ (j # k /\ jobs[j].pc = "writeFile" /\ jobs'[j].pc = "stat")
                      => tree'[tempPath(k)] = FileOf(j, jobs[j].size)
                /\ (/\ j # k
                    /\ jobs[j].pc = "access"
                    /\ jobs'[j].pc # "access"
                    /\ jobs[k].downloadStatus = "completed")
                      => /\ jobs'[j].downloadStatus = "completed"
                         /\ jobs'[j].downloadPath = jobs[k].downloadPath
                         /\ jobs'[j].downloadPath = outputPath(k)
                         /\ jobs'[j].transfers = jobs[j].transfers
                         /\ jobs'[j].skipped
                         /\ tree' = tree]_vars

\* Run one after the other, the first job transferred its bytes and the
\* second, of another name and another declared size, was completed at the
\* same path without a transfer: the file holds the bytes of the first.
C37_Witness ==
    /\ options.concurrency = 1
    /\ ~options.overwriteExisting
    /\ jobs[1].name # jobs[2].name
    /\ jobs[1].size # jobs[2].size
    /\ \A j \in Pair : jobs[j].pc = "ended" /\ jobs[j].downloadStatus = "completed"
    /\ jobs[1].downloadPath = jobs[2].downloadPath
    /\ jobs[1].transfers = 1
    /\ jobs[2].transfers = 0
    /\ tree[jobs[2].downloadPath] = FileOf(1, jobs[1].size)

\* C38: the step in which a job ends through the skip (a file is at its
\* output path and overwriteExisting is off) makes it completed, adds one
\* to stats.completed and the declared size to stats.downloadedSize, with
\* no transfer and whatever the size of the file there; stats.skipped is 0
\* throughout.
C38_SkipCountedAsCompleted ==
    [][/\ runStats.skipped = 0
       /\ runStats'.skipped = 0
       /\ \A j \in Pair :
             (jobs[j].pc = "access" /\ jobs'[j].pc = "persistOutcome") =>
                 /\ ~options.overwriteExisting
                 /\ tree[outputPath(j)] # NoSuchFile
                 /\ jobs'[j].skipped
                 /\ jobs'[j].downloadStatus = "completed"
                 /\ jobs'[j].transfers = jobs[j].transfers
                 /\ runStats'.completed = runStats.completed + 1
                 /\ runStats'.downloadedSize
                        = runStats.downloadedSize + jobs[j].size
                 /\ runStats'.failed = runStats.failed]_vars

\* Both jobs ended through the skip on a file of 70 bytes that was there
\* before the run; 100 and 120 bytes are counted as downloaded.
C38_Witness ==
    /\ \A j \in Pair :
          /\ jobs[j].pc = "ended"
          /\ jobs[j].skipped
          /\ jobs[j].transfers = 0
    /\ jobs[2].size = 120
    /\ tree[outputPath(1)] = FileOf(0, ExistingSize)
    /\ tree[outputPath(2)] = FileOf(0, ExistingSize)
    /\ runStats.completed = 2
    /\ runStats.downloadedSize = 220
    /\ runStats.skipped = 0

\* What loadDataFile returned to the discoverFiles call with update.
LoadedForUpdate == loadDataFile(options.before, NoFile).data

\* A backup holds the data file as it was at the call.
BackedUp == \E t \in Times : backups[t] = options.before

\* Without update the snapshot starts empty: every job in it is pending,
\* whatever the data file recorded, and the file written is that snapshot.
FreshStartsEmpty ==
    (options.called /\ ~options.update) =>
        /\ ~options.threw
        /\ Len(snapshot.groups) <= 1
        /\ \A i \in 1..Len(snapshot.files) :
              snapshot.files[i] = NewFileEntry(snapshot.files[i].id,
                                               snapshot.files[i].size)
        /\ saves[FinalSaver].outcome = "returned" =>
              primary = Json(updateStatistics(snapshot))

\* With update the loaded file is kept: every job in it is in the snapshot
\* with its download state, every group too; the data file is changed only
\* after a backup of it was made, and the file written is the snapshot.
UpdateKeepsAll ==
    (options.called /\ options.update /\ ~options.threw) =>
        /\ \A i \in 1..Len(LoadedForUpdate.files) :
              /\ Known(snapshot.files, LoadedForUpdate.files[i].id)
              /\ SameDownloadState(
                     LoadedForUpdate.files[i],
                     EntryOf(snapshot.files, LoadedForUpdate.files[i].id))
        /\ \A i \in 1..Len(LoadedForUpdate.groups) :
              Known(snapshot.groups, LoadedForUpdate.groups[i].id)
        /\ (primary # options.before /\ options.before.kind # "absent")
              => BackedUp
        /\ saves[FinalSaver].outcome = "returned" =>
              primary = Json(updateStatistics(snapshot))

\* C39 as stated: a call without update starts from an empty snapshot and
\* replaces the data file without making a backup, so every job is pending;
\* a call with update loads the file, backs it up before saving and removes
\* no job and no group.
C39_DiscoverWithoutUpdateMakesNoBackup ==
    /\ FreshStartsEmpty
    /\ UpdateKeepsAll
    /\ (options.called /\ ~options.update) => backups = NoFile

\* C39, amended: as stated, but a call without update makes no backup only
\* when groupsOnly is off; with groupsOnly it backs the data file up before
\* replacing it by a snapshot without files.
C39_DiscoverWithoutUpdate ==
    /\ FreshStartsEmpty
    /\ UpdateKeepsAll
    /\ (options.called /\ ~options.update /\ ~options.groupsOnly)
          => backups = NoFile
    /\ (options.called /\ ~options.update /\ options.groupsOnly) =>
          /\ snapshot.files = <<>>
          /\ (primary # options.before /\ options.before.kind # "absent")
                => BackedUp

\* A discovery without update has returned: a job the data file showed as
\* completed is pending in the file now, and there is no backup.
C39_Witness ==
    /\ options.called
    /\ ~options.update
    /\ ~options.groupsOnly
    /\ saves[FinalSaver].outcome = "returned"
    /\ options.before.kind = "json"
    /\ \E i \in 1..Len(options.before.data.files) :
          /\ options.before.data.files[i].downloadStatus = "completed"
          /\ Known(primary.data.files, options.before.data.files[i].id)
          /\ EntryOf(primary.data.files,
                     options.before.data.files[i].id).downloadStatus
                 = "pending"
    /\ backups = NoFile

\* The statistics the snapshot of the discovery had when it was loaded or
\* created.
StatisticsAtStart ==
    IF options.update THEN LoadedForUpdate.statistics ELSE ZeroStatistics

\* C40: saveDataFile leaves the snapshot passed to it unchanged: no step of
\* the save changes it, it keeps the statistics it had at load or creation,
\* and the recomputed statistics are in the written file only.
C40_SaveLeavesSnapshotUnchanged ==
    /\ [][options.called => snapshot' = snapshot]_vars
    /\ []((options.called /\ ~options.threw) =>
            /\ snapshot.statistics = StatisticsAtStart
            /\ saves[FinalSaver].outcome = "returned" =>
                  /\ primary.data.statistics
                        = updateStatistics(snapshot).statistics
                  /\ primary.data.groups = snapshot.groups
                  /\ primary.data.files = snapshot.files)

\* A fresh discovery that found jobs has returned: the file counts them, the
\* snapshot returned still has all-zero statistics.
C40_Witness ==
    /\ options.called
    /\ ~options.update
    /\ saves[FinalSaver].outcome = "returned"
    /\ Len(snapshot.files) > 0
    /\ snapshot.statistics = ZeroStatistics
    /\ primary.kind = "json"
    /\ primary.data.statistics.totalFiles = Len(snapshot.files)
    /\ primary.data.statistics.pendingFiles = Len(snapshot.files)

====
